---- MODULE Spec2Model ----
(***************************************************************************)
(* Model of the message-processing pipeline of the chat backend:           *)
(*   app/services/conversation_analyzer.py  (ConversationAnalyzer)         *)
(*   app/services/therapy_prompt.py         (TherapyPrompt)                *)
(*   app/services/response_processor.py     (ResponseProcessor)            *)
(*   app/services/chat_service.py           (ChatService)                  *)
(*                                                                         *)
(* Texts.  A Python str is modelled as a sequence of lexemes.  A lexeme is *)
(* either one character ("[", "\"", " ", "\n", ".", ...) or a run of      *)
(* letters that no operation of the code looks inside (a word).  The       *)
(* lexeme "X" is a word of 100 letters and the lexeme "S" is a run of 100  *)
(* tab characters; every other lexeme that the code measures with len()    *)
(* is one character.                                                       *)
(***************************************************************************)
EXTENDS Integers, Sequences, FiniteSets, TLC

(***************************************************************************)
(* Python str primitives                                                   *)
(***************************************************************************)

\* len() contribution of one lexeme
Width(c) == IF c \in {"X", "S"} THEN 100 ELSE 1

RECURSIVE PyLen(_)
\* len(s)
PyLen(s) == IF s = <<>> THEN 0 ELSE Width(Head(s)) + PyLen(Tail(s))

\* the characters the regex class \s and str.strip() treat as whitespace
IsSpace(c) == c \in {" ", "\n", "S"}

\* the sentence terminators of the class [.!?]
IsSentenceEnd(c) == c \in {".", "!", "?"}

RECURSIVE LStrip(_)
LStrip(s) == IF s # <<>> /\ IsSpace(Head(s)) THEN LStrip(Tail(s)) ELSE s

RECURSIVE RStrip(_)
RStrip(s) ==
    IF s # <<>> /\ IsSpace(s[Len(s)]) THEN RStrip(SubSeq(s, 1, Len(s) - 1)) ELSE s

\* str.strip()
Strip(s) == RStrip(LStrip(s))

\* s[i:] with i a 1-based position
From(s, i) == SubSeq(s, i, Len(s))

\* str.find(c): the first position of c, 0 when absent (Python's -1)
Find(s, c) ==
    IF \E i \in 1..Len(s) : s[i] = c
    THEN CHOOSE i \in 1..Len(s) : s[i] = c /\ \A j \in 1..(i - 1) : s[j] # c
    ELSE 0

\* str.rfind(c): the last position of c, 0 when absent
RFind(s, c) ==
    IF \E i \in 1..Len(s) : s[i] = c
    THEN CHOOSE i \in 1..Len(s) : s[i] = c /\ \A j \in (i + 1)..Len(s) : s[j] # c
    ELSE 0

RECURSIVE Join(_, _)
\* sep.join(parts)
Join(sep, parts) ==
    IF parts = <<>> THEN <<>>
    ELSE IF Len(parts) = 1 THEN parts[1]
    ELSE parts[1] \o sep \o Join(sep, Tail(parts))

RECURSIVE Concat(_)
\* "".join(parts)
Concat(parts) == IF parts = <<>> THEN <<>> ELSE Head(parts) \o Concat(Tail(parts))

\* the blank line "\n\n" that _combine_into_batches joins with
BlankLine == <<"\n", "\n">>

RECURSIVE ParagraphSplit(_)
\* re.split(r'\n\s*\n', s): the leftmost match starts at the first newline that
\* is followed, inside the same whitespace run, by another newline, and (\s*
\* being greedy) ends at the last newline of that run.
ParagraphSplit(s) ==
    LET Sep(i, j) == /\ i < j
                     /\ s[i] = "\n"
                     /\ s[j] = "\n"
                     /\ \A k \in i..j : IsSpace(s[k])
        Starts == {i \in 1..Len(s) : \E j \in 1..Len(s) : Sep(i, j)}
    IN  IF Starts = {} THEN <<s>>
        ELSE LET i == CHOOSE a \in Starts : \A b \in Starts : a <= b
                 j == CHOOSE a \in 1..Len(s) :
                         Sep(i, a) /\ \A b \in 1..Len(s) : Sep(i, b) => b <= a
             IN  <<SubSeq(s, 1, i - 1)>> \o ParagraphSplit(From(s, j + 1))

RECURSIVE SentenceSplit(_)
\* re.split(r'(?<=[.!?])\s+', s): the leftmost whitespace run that directly
\* follows a sentence terminator, taken whole (\s+ is greedy).
SentenceSplit(s) ==
    LET Starts == {i \in 2..Len(s) : IsSpace(s[i]) /\ IsSentenceEnd(s[i - 1])}
    IN  IF Starts = {} THEN <<s>>
        ELSE LET i == CHOOSE a \in Starts : \A b \in Starts : a <= b
                 j == CHOOSE a \in i..Len(s) :
                         /\ \A k \in i..a : IsSpace(s[k])
                         /\ (a = Len(s) \/ ~IsSpace(s[a + 1]))
             IN  <<SubSeq(s, 1, i - 1)>> \o SentenceSplit(From(s, j + 1))

\* [p.strip() for p in parts if p.strip()]
StripNonBlank(parts) ==
    LET F[i \in 0..Len(parts)] ==
            IF i = 0 THEN <<>>
            ELSE IF Strip(parts[i]) # <<>> THEN Append(F[i - 1], Strip(parts[i]))
            ELSE F[i - 1]
    IN  F[Len(parts)]

\* the builtin min(a, b)
Min(a, b) == IF a <= b THEN a ELSE b

\* math.ceil(a / b) for b > 0
CeilDiv(a, b) == (a + b - 1) \div b

(***************************************************************************)
(* Results of calls that may raise: a value or an exception                *)
(***************************************************************************)
Ok(v) == [ok |-> TRUE, val |-> v, exc |-> "none"]
Raise(e) == [ok |-> FALSE, val |-> <<>>, exc |-> e]

\* the exception classes that occur, all of them subclasses of Exception
ExceptionClasses ==
    {"Exception", "ConnectError", "KeyError", "TypeError", "JSONDecodeError",
     "ImportError", "RuntimeError", "IndexError", "AttributeError",
     "WebSocketDisconnect"}

\* the clause "except Exception": does it catch an exception of class e
ExceptException(e) == e \in ExceptionClasses

\* the clause "except json.JSONDecodeError"
ExceptJSONDecodeError(e) == e = "JSONDecodeError"

\* the names the standard module math exports that the code asks for;
\* math has ceil but no min, so "from math import min" raises ImportError
MathModule == {"ceil", "floor", "sqrt", "fabs", "pow"}

\* from math import <names>: succeeds iff math has every name
FromMathImport(names) == names \subseteq MathModule

(***************************************************************************)
(* ResponseProcessor: the local heuristic splitter                         *)
(***************************************************************************)

\* the length under which _split_message_with_fallback returns the text whole
ShortMessageLimit == 200

\* the loop of _combine_into_batches, batches 0..num_batches-1
CombineLoop(segments, num_batches) ==
    LET per == CeilDiv(Len(segments), num_batches)
        F[i \in 0..num_batches] ==
            IF i = 0 THEN <<>>
            ELSE LET start == (i - 1) * per
                     end == Min(start + per, Len(segments))
                     batch == Join(BlankLine, SubSeq(segments, start + 1, end))
                 IN  IF start < Len(segments) /\ Strip(batch) # <<>>
                     THEN Append(F[i - 1], batch)
                     ELSE F[i - 1]
    IN  F[num_batches]

\* ResponseProcessor._combine_into_batches
CombineIntoBatches(segments, num_batches) ==
    IF segments = <<>> \/ num_batches <= 0 THEN Ok(<<>>)
    ELSE IF num_batches = 1 \/ Len(segments) = 1
    THEN Ok(<<Join(BlankLine, segments)>>)
    ELSE IF ~FromMathImport({"ceil", "min"}) THEN Raise("ImportError")
    ELSE Ok(CombineLoop(segments, num_batches))

\* the modules the body of the splitter imports; whether the interpreter
\* has them in its cache depends on what ran before
SplitterModules == {"re", "math"}

\* a from-import that looks the names up only when it has to load the
\* module, and takes them as found when the module is in the cache
FromImportWhenLoading(names, loaded) ==
    [ok |-> "math" \in loaded \/ FromMathImport(names),
     loaded |-> loaded \cup {"math"}]

\* "from math import <names>" with the modules loaded in the cache: math
\* is taken from the cache or loaded and put there, then the names are
\* looked up in it; math stays in the cache when a name is missing
FromImport(names, loaded) ==
    [ok |-> FromMathImport(names), loaded |-> loaded \cup {"math"}]

\* ResponseProcessor._split_message_with_fallback called with the modules
\* loaded in the cache: its outcome and the cache it leaves; the method
\* reads and writes no attribute of the instance
SplitCall(raw_message, loaded) ==
    LET Out(r, cache) == [result |-> r, loaded |-> cache]
        Merged(segments, num_batches, import) ==
            IF ~import.ok THEN Out(Raise("ImportError"), import.loaded)
            ELSE Out(CombineIntoBatches(segments, num_batches), import.loaded)
        BySentence(sentences, cache) ==
            IF Len(sentences) >= 3
            THEN Merged(sentences, Min(3, Len(sentences) \div 3),
                        FromImport({"min"}, cache))
            ELSE Out(Ok(<<raw_message>>), cache)
        ByParagraph(paragraphs, cache) ==
            IF 2 <= Len(paragraphs) /\ Len(paragraphs) <= 4
            THEN Out(Ok(StripNonBlank(paragraphs)), cache)
            ELSE IF Len(paragraphs) > 4
            THEN Merged(paragraphs, Min(4, Len(paragraphs) \div 2),
                        FromImport({"min"}, cache))
            ELSE BySentence(SentenceSplit(raw_message), cache)
    IN  IF raw_message = <<>> THEN Out(Ok(<<raw_message>>), loaded)
        ELSE IF PyLen(raw_message) < ShortMessageLimit
        THEN Out(Ok(<<raw_message>>), loaded)
        ELSE ByParagraph(ParagraphSplit(raw_message), loaded \cup {"re"})

\* the outcome of _split_message_with_fallback, here of a call made with
\* an empty cache
SplitMessageWithFallback(raw_message) == SplitCall(raw_message, {}).result

(***************************************************************************)
(* json.loads: Python values and the decoder                               *)
(***************************************************************************)

\* Python values decoded from JSON, in one record shape
JStr(s) == [t |-> "str", s |-> s, items |-> <<>>, fields |-> <<>>]
JNum(s) == [t |-> "num", s |-> s, items |-> <<>>, fields |-> <<>>]
JArr(items) == [t |-> "list", s |-> <<>>, items |-> items, fields |-> <<>>]
JObj(fields) == [t |-> "dict", s |-> <<>>, items |-> <<>>, fields |-> fields]

\* a raised exception where the value would be a decoded value
RaiseJ(e) == [ok |-> FALSE, val |-> JStr(<<>>), exc |-> e]

\* the decoder's whitespace " \t\n\r"
IsJsonSpace(c) == c \in {" ", "\n", "S"}

\* characters a JSON string may not hold unescaped (strict mode)
IsControl(c) == c \in {"\n", "S"}

IsDigit(c) == c \in {"1", "2", "3"}

\* the lexemes that may follow a backslash inside a JSON string
IsEscapable(c) == c \in {"\"", "\\"}

\* a decoding step: a value and the position after it, or JSONDecodeError
Parsed(v, n) == [ok |-> TRUE, val |-> v, next |-> n]
ParseError == [ok |-> FALSE, val |-> JStr(<<>>), next |-> 0]

RECURSIVE SkipSpace(_, _)
SkipSpace(s, i) ==
    IF i <= Len(s) /\ IsJsonSpace(s[i]) THEN SkipSpace(s, i + 1) ELSE i

RECURSIVE ScanString(_, _, _)
\* json.decoder.py_scanstring, from the position after the opening quote
ScanString(s, i, acc) ==
    IF i > Len(s) THEN ParseError
    ELSE IF s[i] = "\"" THEN Parsed(JStr(acc), i + 1)
    ELSE IF s[i] = "\\"
    THEN IF i + 1 <= Len(s) /\ IsEscapable(s[i + 1])
         THEN ScanString(s, i + 2, Append(acc, s[i + 1]))
         ELSE ParseError
    ELSE IF IsControl(s[i]) THEN ParseError
    ELSE ScanString(s, i + 1, Append(acc, s[i]))

RECURSIVE DigitsEnd(_, _)
DigitsEnd(s, i) == IF i <= Len(s) /\ IsDigit(s[i]) THEN DigitsEnd(s, i + 1) ELSE i

\* json.scanner NUMBER_RE: digits, then a fraction only if a digit follows "."
ScanNumber(s, i) ==
    LET Number(f) == Parsed(JNum(SubSeq(s, i, f - 1)), f)
        Fraction(e) ==
            Number(IF e + 1 <= Len(s) /\ s[e] = "." /\ IsDigit(s[e + 1])
                   THEN DigitsEnd(s, e + 1) ELSE e)
    IN  Fraction(DigitsEnd(s, i))

RECURSIVE ScanOnce(_, _), ScanArray(_, _, _), ScanObject(_, _, _)
\* json.scanner.py_make_scanner._scan_once
ScanOnce(s, i) ==
    LET Object(j) ==
            IF j <= Len(s) /\ s[j] = "}" THEN Parsed(JObj(<<>>), j + 1)
            ELSE ScanObject(s, j, <<>>)
        Array(j) ==
            IF j <= Len(s) /\ s[j] = "]" THEN Parsed(JArr(<<>>), j + 1)
            ELSE ScanArray(s, j, <<>>)
    IN  IF i > Len(s) THEN ParseError
        ELSE IF s[i] = "\"" THEN ScanString(s, i + 1, <<>>)
        ELSE IF s[i] = "{" THEN Object(SkipSpace(s, i + 1))
        ELSE IF s[i] = "[" THEN Array(SkipSpace(s, i + 1))
        ELSE IF IsDigit(s[i]) THEN ScanNumber(s, i)
        ELSE ParseError

\* json.decoder.JSONArray, at the start of an element
ScanArray(s, i, acc) ==
    LET After(values, j) ==
            IF j > Len(s) THEN ParseError
            ELSE IF s[j] = "]" THEN Parsed(JArr(values), j + 1)
            ELSE IF s[j] = "," THEN ScanArray(s, SkipSpace(s, j + 1), values)
            ELSE ParseError
        Value(v) ==
            IF ~v.ok THEN ParseError
            ELSE After(Append(acc, v.val), SkipSpace(s, v.next))
    IN  Value(ScanOnce(s, i))

\* json.decoder.JSONObject, at the start of a key
ScanObject(s, i, acc) ==
    LET After(m, j) ==
            IF j > Len(s) THEN ParseError
            ELSE IF s[j] = "}" THEN Parsed(JObj(m), j + 1)
            ELSE IF s[j] = "," THEN ScanObject(s, SkipSpace(s, j + 1), m)
            ELSE ParseError
        Value(k, v) ==
            IF ~v.ok THEN ParseError
            ELSE After(Append(acc, [k |-> k.val.s, v |-> v.val]),
                       SkipSpace(s, v.next))
        Colon(k, c) ==
            IF c > Len(s) \/ s[c] # ":" THEN ParseError
            ELSE Value(k, ScanOnce(s, SkipSpace(s, c + 1)))
        Key(k) == IF ~k.ok THEN ParseError ELSE Colon(k, SkipSpace(s, k.next))
    IN  IF i > Len(s) \/ s[i] # "\"" THEN ParseError
        ELSE Key(ScanString(s, i + 1, <<>>))

\* json.loads(s): one value, whitespace around it, nothing after it
JsonLoads(s) ==
    LET Whole(v) ==
            IF v.ok /\ SkipSpace(s, v.next) > Len(s) THEN Ok(v.val)
            ELSE RaiseJ("JSONDecodeError")
    IN  Whole(ScanOnce(s, SkipSpace(s, 1)))

\* obj[key] on a decoded value: the last member of that name of a dict,
\* KeyError when a dict lacks it, TypeError for a list, a str or a number
Subscript(obj, key) ==
    IF obj.t = "dict"
    THEN LET I == {i \in 1..Len(obj.fields) : obj.fields[i].k = <<key>>}
         IN  IF I = {} THEN RaiseJ("KeyError")
             ELSE Ok(obj.fields[CHOOSE i \in I : \A j \in I : j <= i].v)
    ELSE RaiseJ("TypeError")

(***************************************************************************)
(* The completion endpoint, as each of the three callers uses it           *)
(***************************************************************************)

\* what one call to the endpoint can do: fail in transport, answer with a
\* non-success status, answer 200 with a body that lacks
\* choices[0].message.content, or answer 200 with a reply text
Failed(kind) == [kind |-> kind, content |-> <<>>]
Reply(content) == [kind |-> "reply", content |-> content]
FailureKinds == {"transport", "status", "malformed"}

\* client.post(...); the status check; response.json()["choices"][0]["message"]["content"]
PostCompletion(outcome) ==
    IF outcome.kind = "transport" THEN Raise("ConnectError")
    ELSE IF outcome.kind = "status" THEN Raise("Exception")
    ELSE IF outcome.kind = "malformed" THEN Raise("KeyError")
    ELSE Ok(outcome.content)

(***************************************************************************)
(* ConversationAnalyzer                                                    *)
(***************************************************************************)

Field(k, v) == [k |-> <<k>>, v |-> JStr(<<v>>)]

\* the default returned when the reply holds no "{" or no "}"
DefaultAnalysis ==
    JObj(<<Field("queryType", "THERAPEUTIC"),
           Field("recommendedApproach", "DETAILED"),
           Field("emotionalState", "Unknown"),
           Field("conversationSummary", "Conversation analysis failed")>>)

\* the default returned by the handler of "except Exception"
ErrorAnalysis ==
    JObj(<<Field("queryType", "THERAPEUTIC"),
           Field("recommendedApproach", "DETAILED"),
           Field("emotionalState", "Unknown"),
           Field("conversationSummary",
                 "Conversation analysis failed due to an error")>>)

\* a parse that stops after the first step, for comparison
ParseAnalysisWholeOnly(analysis_text) ==
    LET First(whole) ==
            IF whole.ok THEN whole
            ELSE IF ~ExceptJSONDecodeError(whole.exc) THEN whole
            ELSE Ok(DefaultAnalysis)
    IN  First(JsonLoads(analysis_text))

\* the two-step parse of the reply text
ParseAnalysis(analysis_text) ==
    LET Braces(json_start, json_end) ==
            IF json_start = 0 \/ json_end = 0 THEN Ok(DefaultAnalysis)
            ELSE JsonLoads(SubSeq(analysis_text, json_start, json_end))
        Second(whole) ==
            IF whole.ok THEN whole
            ELSE IF ~ExceptJSONDecodeError(whole.exc) THEN whole
            ELSE Braces(Find(analysis_text, "{"), RFind(analysis_text, "}"))
    IN  Second(JsonLoads(analysis_text))

\* the body of the try block of analyze_conversation
AnalyzeBody(outcome) ==
    LET Parse(response) ==
            IF ~response.ok THEN RaiseJ(response.exc)
            ELSE ParseAnalysis(response.val)
    IN  Parse(PostCompletion(outcome))

\* the analyzer variant without the handler of "except Exception"
AnalyzeUnguarded(outcome) == AnalyzeBody(outcome)

\* ConversationAnalyzer.analyze_conversation
AnalyzeConversation(outcome) ==
    LET Handle(r) ==
            IF r.ok THEN r
            ELSE IF ExceptException(r.exc) THEN Ok(ErrorAnalysis)
            ELSE r
    IN  Handle(AnalyzeBody(outcome))

(***************************************************************************)
(* ResponseProcessor: the extraction cascade                               *)
(***************************************************************************)

\* the lexeme that stands for a code fence, three backticks
Fence == "FENCE"

\* the marker _clean_json_string puts in place of an escaped quote
QuoteMarker == "##QUOTE##"

RECURSIVE SkipReSpace(_, _)
\* the end of a greedy \s* starting at i
SkipReSpace(s, i) ==
    IF i <= Len(s) /\ IsSpace(s[i]) THEN SkipReSpace(s, i + 1) ELSE i

RECURSIVE ScanQuoted(_, _, _)
\* the body of a quoted string and its closing quote, from position i: plain
\* characters and backslash pairs up to the first unpaired quote; gives the
\* position of that quote, 0 when there is no match; a backslash pairs with a
\* newline only under re.DOTALL
ScanQuoted(s, i, dotall) ==
    IF i > Len(s) THEN 0
    ELSE IF s[i] = "\"" THEN i
    ELSE IF s[i] = "\\"
    THEN IF i + 1 > Len(s) \/ (~dotall /\ s[i + 1] = "\n") THEN 0
         ELSE ScanQuoted(s, i + 2, dotall)
    ELSE ScanQuoted(s, i + 1, dotall)

RECURSIVE ArrayTail(_, _)
\* the rest of json_array_regex after a string: further comma-separated
\* strings, then the closing bracket; gives its position, 0 for no match
ArrayTail(s, i) ==
    LET Closed(e) == IF e = 0 THEN 0 ELSE ArrayTail(s, e + 1)
        String(k) ==
            IF k <= Len(s) /\ s[k] = "\"" THEN Closed(ScanQuoted(s, k + 1, FALSE))
            ELSE 0
        Sep(j) ==
            IF j > Len(s) THEN 0
            ELSE IF s[j] = "]" THEN j
            ELSE IF s[j] = "," THEN String(SkipReSpace(s, j + 1))
            ELSE 0
    IN  Sep(SkipReSpace(s, i))

\* json_array_regex matched at position i: the position of its closing
\* bracket, else 0
QuotedArrayAt(s, i) ==
    LET Closed(e) == IF e = 0 THEN 0 ELSE ArrayTail(s, e + 1)
        String(k) ==
            IF k <= Len(s) /\ s[k] = "\"" THEN Closed(ScanQuoted(s, k + 1, FALSE))
            ELSE 0
    IN  IF s[i] # "[" THEN 0 ELSE String(SkipReSpace(s, i + 1))

\* json_array_regex.search(processed_text): group(0), or no match
SearchQuotedArray(s) ==
    LET Group(ends, i) == [found |-> TRUE, text |-> SubSeq(s, i, ends[i])]
        First(ends, Starts) ==
            IF Starts = {} THEN [found |-> FALSE, text |-> <<>>]
            ELSE Group(ends, CHOOSE a \in Starts : \A b \in Starts : a <= b)
        Matches(ends) == First(ends, {i \in 1..Len(s) : ends[i] # 0})
    IN  Matches([i \in 1..Len(s) |-> QuotedArrayAt(s, i)])

RECURSIVE MarkEscapedQuotes(_)
\* json_str.replace(backslash-quote, marker)
MarkEscapedQuotes(s) ==
    IF s = <<>> THEN <<>>
    ELSE IF Len(s) >= 2 /\ s[1] = "\\" /\ s[2] = "\""
    THEN <<QuoteMarker>> \o MarkEscapedQuotes(From(s, 3))
    ELSE <<s[1]>> \o MarkEscapedQuotes(Tail(s))

RECURSIVE RestoreEscapedQuotes(_)
\* cleaned.replace(marker, backslash-quote)
RestoreEscapedQuotes(s) ==
    IF s = <<>> THEN <<>>
    ELSE IF s[1] = QuoteMarker
    THEN <<"\\", "\"">> \o RestoreEscapedQuotes(Tail(s))
    ELSE <<s[1]>> \o RestoreEscapedQuotes(Tail(s))

RECURSIVE EscapeQuotes(_)
\* match.group(1).replace(quote, backslash-quote)
EscapeQuotes(s) ==
    IF s = <<>> THEN <<>>
    ELSE IF s[1] = "\"" THEN <<"\\", "\"">> \o EscapeQuotes(Tail(s))
    ELSE <<s[1]>> \o EscapeQuotes(Tail(s))

\* no newline in s[a..b]: what a lazy dot-star can cross without re.DOTALL
NoNewline(s, a, b) == \A k \in a..b : s[k] # "\n"

\* the regex of _clean_json_string matched at position p: after an opening
\* bracket or a comma, whitespace, a quote, the shortest run without newline
\* up to a quote that has no backslash before it and has a comma or a closing
\* bracket later on its line; gives the positions of the two quotes, or 0
CleanMatchAt(s, p) ==
    LET Shortest(o, Closes) ==
            IF o > Len(s) \/ s[o] # "\"" \/ Closes = {}
            THEN [open |-> 0, close |-> 0]
            ELSE [open |-> o,
                  close |-> CHOOSE a \in Closes : \A b \in Closes : a <= b]
        Quote(o) ==
            Shortest(o, {c \in (o + 1)..Len(s) :
                           /\ s[c] = "\""
                           /\ s[c - 1] # "\\"
                           /\ NoNewline(s, o + 1, c - 1)
                           /\ \E k \in (c + 1)..Len(s) :
                                 s[k] \in {",", "]"} /\ NoNewline(s, c + 1, k - 1)})
    IN  IF p < 2 \/ s[p - 1] \notin {"[", ","} THEN [open |-> 0, close |-> 0]
        ELSE Quote(SkipReSpace(s, p))

RECURSIVE CleanSub(_, _)
\* re.sub over the whole string, from position p on
CleanSub(s, p) ==
    LET Replace(m) ==
            IF m.open = 0 THEN <<s[p]>> \o CleanSub(s, p + 1)
            ELSE <<"\"">> \o EscapeQuotes(SubSeq(s, m.open + 1, m.close - 1))
                 \o <<"\"">> \o CleanSub(s, m.close + 1)
    IN  IF p > Len(s) THEN <<>> ELSE Replace(CleanMatchAt(s, p))

\* ResponseProcessor._clean_json_string
CleanJsonString(json_str) ==
    RestoreEscapedQuotes(CleanSub(MarkEscapedQuotes(json_str), 1))

\* json.loads(text), and on JSONDecodeError json.loads of the cleaned text
LoadsThenCleaned(text) ==
    LET Retry(direct, cleaned) == IF direct.ok THEN direct ELSE cleaned
    IN  Retry(JsonLoads(text), JsonLoads(CleanJsonString(text)))

\* code_block_regex.search(processed_text): a fence, the word json if it is
\* there, whitespace, the shortest content, whitespace, a fence; gives
\* group(1); found is FALSE without a match
SearchCodeBlock(s) ==
    LET Group(c, f) == [found |-> TRUE, text |-> RStrip(SubSeq(s, c, f - 1))]
        Content(c) ==
            Group(c, CHOOSE a \in c..Len(s) :
                        s[a] = Fence /\ \A b \in c..(a - 1) : s[b] # Fence)
        Open(i) == Content(SkipReSpace(s, IF s[i + 1] = "json" THEN i + 2 ELSE i + 1))
        First(Opens) ==
            IF Opens = {} THEN [found |-> FALSE, text |-> <<>>]
            ELSE Open(CHOOSE a \in Opens : \A b \in Opens : a <= b)
    IN  First({i \in 1..Len(s) :
                 s[i] = Fence /\ \E f \in (i + 1)..Len(s) : s[f] = Fence})

\* the head of numbered_messages_regex at position i (re.IGNORECASE): the
\* word Message and whitespace if they are there, digits, a colon or a period;
\* gives the positions of the first digit and after the punctuation, or 0
NumberedHeader(s, i) ==
    LET Punct(d, e) ==
            IF d <= Len(s) /\ IsDigit(s[d]) /\ e <= Len(s) /\ s[e] \in {":", "."}
            THEN [digits |-> d, after |-> e + 1]
            ELSE [digits |-> 0, after |-> 0]
        Digits(d) == Punct(d, DigitsEnd(s, d))
    IN  Digits(IF i <= Len(s) /\ s[i] = "message" THEN SkipReSpace(s, i + 1) ELSE i)

\* the lookahead of numbered_messages_regex at position e: a newline and
\* the head of the next numbered message, or the end of the text (also just
\* before a final newline)
NumberedStop(s, e) ==
    \/ e > Len(s)
    \/ e = Len(s) /\ s[e] = "\n"
    \/ s[e] = "\n" /\ NumberedHeader(s, e + 1).after # 0

\* numbered_messages_regex matched at position p: the content group and the
\* position where the match ends, or no match
NumberedAt(s, p) ==
    LET Group(c, e) == [found |-> TRUE, text |-> SubSeq(s, c, e - 1), end |-> e]
        Content(c) ==
            LET Stops == {a \in c..(Len(s) + 1) : NumberedStop(s, a)}
            IN  Group(c, CHOOSE a \in Stops : \A b \in Stops : a <= b)
        Head1(h) ==
            IF h.after = 0 THEN [found |-> FALSE, text |-> <<>>, end |-> 0]
            ELSE Content(SkipReSpace(s, h.after))
    IN  Head1(IF p = 1 /\ NumberedHeader(s, 1).after # 0 THEN NumberedHeader(s, 1)
              ELSE IF p <= Len(s) /\ s[p] = "\n" THEN NumberedHeader(s, p + 1)
              ELSE [digits |-> 0, after |-> 0])

RECURSIVE NumberedFindAll(_, _)
\* numbered_messages_regex.findall(text): the content groups, from position p
NumberedFindAll(s, p) ==
    LET Next1(m) ==
            IF m.found THEN <<m.text>> \o NumberedFindAll(s, m.end)
            ELSE NumberedFindAll(s, p + 1)
    IN  IF p > Len(s) THEN <<>> ELSE Next1(NumberedAt(s, p))

RECURSIVE QuotedFindAll(_, _)
\* quoted_messages_regex.findall(text), from position p (re.DOTALL)
QuotedFindAll(s, p) ==
    LET Next1(e) ==
            IF e # 0 THEN <<SubSeq(s, p + 1, e - 1)>> \o QuotedFindAll(s, e + 1)
            ELSE QuotedFindAll(s, p + 1)
    IN  IF p > Len(s) THEN <<>>
        ELSE Next1(IF s[p] = "\"" THEN ScanQuoted(s, p + 1, TRUE) ELSE 0)

\* "message" in text
HasMessageWord(s) == \E i \in 1..Len(s) : s[i] = "message"

\* ResponseProcessor._extract_messages_by_pattern
ExtractMessagesByPattern(text) ==
    LET Pick(matches, numbered, quoted_matches, quoted, paragraphs) ==
            IF Len(matches) >= 2 /\ Len(numbered) >= 2 THEN numbered
            ELSE IF Len(quoted_matches) >= 2 /\ Len(quoted) >= 2 THEN quoted
            ELSE IF 2 <= Len(paragraphs) /\ Len(paragraphs) <= 4
            THEN StripNonBlank(paragraphs)
            ELSE <<>>
        Strips(matches, quoted_matches) ==
            Pick(matches, StripNonBlank(matches), quoted_matches,
                 StripNonBlank(quoted_matches), ParagraphSplit(text))
    IN  IF Find(text, "\"") = 0 /\ ~HasMessageWord(text) THEN <<>>
        ELSE Strips(NumberedFindAll(text, 1), QuotedFindAll(text, 1))

\* a list of str as Python values
StrList(texts) == [i \in 1..Len(texts) |-> JStr(texts[i])]

\* method 4 and the final "return []"
ExtractMethod4(processed_text) ==
    Ok(StrList(ExtractMessagesByPattern(processed_text)))

\* method 3: a fenced code block holding "[ ... ]"; rest is what the later
\* methods give
ExtractMethod3(processed_text) ==
    LET Block(code_block_match, code_content, messages, rest) ==
            IF /\ code_block_match.found
               /\ code_block_match.text # <<>>
               /\ code_content # <<>>
               /\ Head(code_content) = "["
               /\ code_content[Len(code_content)] = "]"
               /\ messages.ok
            THEN Ok(messages.val.items)
            ELSE rest
    IN  Block(SearchCodeBlock(processed_text),
              Strip(SearchCodeBlock(processed_text).text),
              LoadsThenCleaned(Strip(SearchCodeBlock(processed_text).text)),
              ExtractMethod4(processed_text))

\* method 2: from the first "[" to the last "]"; rest is what the later
\* methods give
ExtractMethod2(processed_text) ==
    LET Brackets(json_start, json_end, messages, rest) ==
            IF json_start # 0 /\ json_end >= json_start /\ messages.ok
            THEN Ok(messages.val.items)
            ELSE rest
    IN  Brackets(Find(processed_text, "["), RFind(processed_text, "]"),
                 LoadsThenCleaned(SubSeq(processed_text, Find(processed_text, "["),
                                         RFind(processed_text, "]"))),
                 ExtractMethod3(processed_text))

\* the cascade without its first method: the brackets are tried at once
ExtractWithoutMethod1(processed_text) == ExtractMethod2(processed_text)

\* the try block of _extract_messages_from_response, method 1 first
ExtractBody(processed_text) ==
    LET Method1(match, processed_messages, rest) ==
            IF ~match.found THEN rest
            ELSE IF processed_messages.ok THEN Ok(processed_messages.val.items)
            ELSE Raise(processed_messages.exc)
    IN  Method1(SearchQuotedArray(processed_text),
                JsonLoads(SearchQuotedArray(processed_text).text),
                ExtractMethod2(processed_text))

\* ResponseProcessor._extract_messages_from_response
ExtractMessagesFromResponse(processed_text) ==
    LET Handle(r) ==
            IF r.ok THEN r.val
            ELSE IF ExceptException(r.exc) THEN <<>>
            ELSE <<>>
    IN  Handle(ExtractBody(processed_text))

(***************************************************************************)
(* ResponseProcessor.process_response                                      *)
(***************************************************************************)

\* analysis[key] == word, for a key the dict must have (else it raises)
KeyIs(analysis, key, word) ==
    LET Same(v) == IF v.ok THEN Ok(v.val = JStr(<<word>>)) ELSE Raise(v.exc)
    IN  Same(Subscript(analysis, key))

\* analysis["queryType"] == "SIMPLE" and analysis["recommendedApproach"] == "CONCISE"
IsSimpleConcise(analysis) ==
    LET And(q) ==
            IF ~q.ok \/ ~q.val THEN q
            ELSE KeyIs(analysis, "recommendedApproach", "CONCISE")
    IN  And(KeyIs(analysis, "queryType", "SIMPLE"))

\* the part of the try block of process_response before the completion call:
\* building the request reads two more fields of the analysis
ProcessingRequest(analysis) ==
    LET Both(summary, state) ==
            IF ~summary.ok THEN Raise(summary.exc)
            ELSE IF ~state.ok THEN Raise(state.exc)
            ELSE Ok(<<summary.val, state.val>>)
    IN  Both(Subscript(analysis, "conversationSummary"),
             Subscript(analysis, "emotionalState"))

\* the splitter's result as a list of Python values
FallbackMessages(raw_response) ==
    LET Listed(r) == IF r.ok THEN Ok(StrList(r.val)) ELSE Raise(r.exc)
    IN  Listed(SplitMessageWithFallback(raw_response))

\* the try block of process_response
ProcessBody(raw_response, analysis, outcome) ==
    LET Called(request, response, messages, fallback) ==
            IF ~request.ok THEN Raise(request.exc)
            ELSE IF ~response.ok THEN Raise(response.exc)
            ELSE IF messages # <<>> THEN Ok(messages)
            ELSE fallback
    IN  Called(ProcessingRequest(analysis), PostCompletion(outcome),
               ExtractMessagesFromResponse(PostCompletion(outcome).val),
               FallbackMessages(raw_response))

\* process_response without its first branch: every reply is sent through
\* the processing call
ProcessUnshortened(raw_response, analysis, outcome) ==
    LET Checked(short, r, fallback) ==
            IF ~short.ok THEN Raise(short.exc)
            ELSE IF r.ok THEN r
            ELSE IF ExceptException(r.exc) THEN fallback
            ELSE r
    IN  Checked(IsSimpleConcise(analysis),
                ProcessBody(raw_response, analysis, outcome),
                FallbackMessages(raw_response))

\* ResponseProcessor.process_response: a list of values, or the exception
\* that leaves it
ProcessResponse(raw_response, analysis, outcome) ==
    LET Checked(short, r, fallback) ==
            IF ~short.ok THEN Raise(short.exc)
            ELSE IF short.val THEN Ok(<<JStr(raw_response)>>)
            ELSE IF r.ok THEN r
            ELSE IF ExceptException(r.exc) THEN fallback
            ELSE r
    IN  Checked(IsSimpleConcise(analysis),
                ProcessBody(raw_response, analysis, outcome),
                FallbackMessages(raw_response))

\* the texts the splitter is applied to when the fallback of the try block
\* and the fallback of the handler are both given in_try and in_handler:
\* once in the try block when the reply came and nothing was extracted from
\* it, and once in the handler when the try block raised
SplitterTexts(raw_response, analysis, outcome, in_try, in_handler) ==
    LET Used(short, request, response, messages, r) ==
            IF ~short.ok \/ short.val THEN <<>>
            ELSE (IF request.ok /\ response.ok /\ messages = <<>> THEN <<in_try>> ELSE <<>>)
                 \o (IF ~r.ok /\ ExceptException(r.exc) THEN <<in_handler>> ELSE <<>>)
    IN  Used(IsSimpleConcise(analysis), ProcessingRequest(analysis),
             PostCompletion(outcome),
             ExtractMessagesFromResponse(PostCompletion(outcome).val),
             ProcessBody(raw_response, analysis, outcome))

\* a process_response that splits the processing model's reply
SplitterArgumentsOfReply(raw_response, analysis, outcome) ==
    SplitterTexts(raw_response, analysis, outcome,
                  PostCompletion(outcome).val, raw_response)

\* the arguments of the calls of _split_message_with_fallback that
\* process_response makes, in order
SplitterArguments(raw_response, analysis, outcome) ==
    SplitterTexts(raw_response, analysis, outcome, raw_response, raw_response)

\* a process_response that makes its completion call for every verdict
MakesProcessingCallAlways(analysis) == TRUE

\* whether process_response gets as far as its completion call
MakesProcessingCall(analysis) ==
    LET Reached(short) == short.ok /\ ~short.val /\ ProcessingRequest(analysis).ok
    IN  Reached(IsSimpleConcise(analysis))

(***************************************************************************)
(* TherapyPrompt: prompt selection (Layer 2)                               *)
(***************************************************************************)

ConcisePrompt ==
    [template |-> "concise", summary |-> JStr(<<>>), state |-> JStr(<<>>),
     directive |-> "none"]

\* TherapyPrompt.get_analyzed_prompt
GetAnalyzedPrompt(analysis) ==
    LET Filled(summary, state, concise) ==
            IF ~summary.ok THEN Raise(summary.exc)
            ELSE IF ~state.ok THEN Raise(state.exc)
            ELSE IF ~concise.ok THEN Raise(concise.exc)
            ELSE Ok([template |-> "adaptive", summary |-> summary.val,
                     state |-> state.val,
                     directive |-> IF concise.val THEN "brief" ELSE "detailed"])
    IN  Filled(Subscript(analysis, "conversationSummary"),
               Subscript(analysis, "emotionalState"),
               KeyIs(analysis, "recommendedApproach", "CONCISE"))

\* Layer 2 without its branch: the adaptive template for every verdict
SelectAdaptiveAlways(analysis) == GetAnalyzedPrompt(analysis)

\* Layer 2 of process_message and of stream_response
SelectPrompt(analysis) ==
    LET Chosen(short) ==
            IF ~short.ok THEN Raise(short.exc)
            ELSE IF short.val THEN Ok(ConcisePrompt)
            ELSE GetAnalyzedPrompt(analysis)
    IN  Chosen(IsSimpleConcise(analysis))

(***************************************************************************)
(* Inputs: the texts the completion endpoint may reply with                *)
(***************************************************************************)

\* all sequences over S of length at most n
SeqsUpTo(S, n) == UNION {[1..k -> S] : k \in 0..n}

\* the text of a JSON object member "key":"word"
Member(key, word) == <<"\"", key, "\"", ":", "\"", word, "\"">>

\* the text of a JSON object with these members
ObjText(members) == <<"{">> \o Join(<<",">>, members) \o <<"}">>

\* the members a reply of the analysis model may give each field; the empty
\* text stands for a field left out
QueryTypeMembers ==
    {<<>>, Member("queryType", "SIMPLE"), Member("queryType", "THERAPEUTIC"),
     Member("queryType", "OTHER"), <<"\"", "queryType", "\"", ":", "1">>}
ApproachMembers ==
    {<<>>, Member("recommendedApproach", "CONCISE"),
     Member("recommendedApproach", "DETAILED"),
     Member("recommendedApproach", "OTHER")}
StateMembers == {<<>>, Member("emotionalState", "x")}
SummaryMembers == {<<>>, Member("conversationSummary", "x")}

\* the members that are there, in order
Present(ms) == SelectSeq(ms, LAMBDA m : m # <<>>)

\* objects with any choice of the four fields
AnalysisObjects ==
    {ObjText(Present(<<q, a, e, c>>)) :
        q \in QueryTypeMembers, a \in ApproachMembers,
        e \in StateMembers, c \in SummaryMembers}

\* what may surround the object in the reply: nothing, prose, a code fence,
\* a JSON list, a lost closing brace, a stray closing brace
Wrappings(obj) ==
    {obj,
     <<"x", " ">> \o obj \o <<" ", "x">>,
     <<Fence, "json", "\n">> \o obj \o <<"\n", Fence>>,
     <<"[">> \o obj \o <<"]">>,
     SubSeq(obj, 1, Len(obj) - 1),
     obj \o <<"}">>}

\* replies that hold no object at all
PlainReplies == {<<>>, <<"x">>, <<"1">>, <<"\"", "x", "\"">>, <<"[", "]">>, <<"}", "{">>}

\* every reply text of the analysis model that the analyzer is applied to
AnalysisReplies == UNION {Wrappings(obj) : obj \in AnalysisObjects} \cup PlainReplies

\* every behaviour of the endpoint on the analysis call
AnalysisOutcomes ==
    {Failed(k) : k \in FailureKinds} \cup {Reply(t) : t \in AnalysisReplies}

\* the analysis outcomes the pipeline is run on: the failures, the plain
\* replies, and the objects that have both free-text fields or neither
PipelineAnalysisOutcomes ==
    {Failed(k) : k \in FailureKinds}
    \cup {Reply(t) : t \in PlainReplies}
    \cup {Reply(ObjText(Present(
                IF both THEN <<q, a, Member("emotionalState", "x"),
                               Member("conversationSummary", "x")>>
                        ELSE <<q, a>>))) :
            q \in QueryTypeMembers, a \in ApproachMembers, both \in BOOLEAN}

\* the text of a JSON list of these item texts
ArrText(items) == <<"[">> \o Join(<<",">>, items) \o <<"]">>

\* the text of a JSON string holding one word
StrText(word) == <<"\"", word, "\"">>

\* the paragraphs a generated reply is put together from: nothing, a short
\* word, 100 blanks, 200 letters, three sentences of 206 characters in all
ParagraphChoices ==
    {<<>>, <<"x">>, <<"S">>, <<"X", "X">>,
     <<"X", ".", " ", "X", ".", " ", "x", ".">>}

\* the most paragraphs a generated reply of the pipeline has
MaxParagraphs == 2

\* the reply texts of the generation call
RawTexts == {Join(BlankLine, ps) : ps \in SeqsUpTo(ParagraphChoices, MaxParagraphs)}

GenerationOutcomes ==
    {Failed(k) : k \in FailureKinds} \cup {Reply(t) : t \in RawTexts}

\* the reply texts of the processing model the pipeline is run on: lists of
\* one, two and five strings, an empty list, a list of an empty string, a
\* list holding a number, prose, nothing
DecompositionReplies ==
    {ArrText(<<StrText("x")>>),
     ArrText(<<StrText("x"), StrText("hi")>>),
     ArrText(<<StrText("1"), StrText("2"), StrText("3"), StrText("x"), StrText("hi")>>),
     ArrText(<<>>),
     ArrText(<<<<"\"", "\"">>>>),
     ArrText(<<StrText("x"), <<"1">>>>),
     <<"x">>,
     <<>>}

DecompositionOutcomes ==
    {Failed(k) : k \in FailureKinds} \cup {Reply(t) : t \in DecompositionReplies}

\* the message texts a user sends; MessageCreate rejects blank content
UserTexts == {<<"hi">>, <<"X", "X">>}

(***************************************************************************)
(* The store: the messages of the one conversation, in insertion order     *)
(***************************************************************************)

\* the default page size of get_messages
MessagesLimit == 100

ApologyText == <<"Sorry, there was an error processing your message. Please try again.">>

\* db.add(Message(...)); db.commit(); db.refresh(...): the row gets its id
AddMessage(d, content, is_user, sender_id) ==
    Append(d, [id |-> Len(d) + 1, content |-> content, is_user |-> is_user,
               sender_id |-> sender_id])

\* the loop over response_messages, then one commit
RECURSIVE AddAll(_, _)
AddAll(d, contents) ==
    IF contents = <<>> THEN d
    ELSE AddAll(AddMessage(d, Head(contents), FALSE, "AI"), Tail(contents))

\* ChatService.get_messages with the default skip and limit
GetMessages(d) == SubSeq(d, 1, Min(Len(d), MessagesLimit))

\* the messages a conversation may hold before the request arrives
MaxHistory == 1
PriorRows ==
    {[content |-> JStr(<<"hi">>), is_user |-> TRUE, sender_id |-> "device"],
     [content |-> JStr(<<"x">>), is_user |-> FALSE, sender_id |-> "AI"]}
RECURSIVE Stored(_)
Stored(rows) ==
    IF rows = <<>> THEN <<>>
    ELSE LET r == rows[Len(rows)]
         IN  AddMessage(Stored(SubSeq(rows, 1, Len(rows) - 1)),
                        r.content, r.is_user, r.sender_id)
Histories == {Stored(rows) : rows \in SeqsUpTo(PriorRows, MaxHistory)}

(***************************************************************************)
(* The message lists sent to the completion endpoint                       *)
(***************************************************************************)

\* the entry of a stored message in a message list
HistoryEntry(row) ==
    [role |-> IF row.is_user THEN "user" ELSE "assistant", content |-> row.content]

\* the entries of the last history_limit messages of the history, in order
LastEntries(conversation_history, history_limit) ==
    LET start_idx == IF Len(conversation_history) > history_limit
                     THEN Len(conversation_history) - history_limit ELSE 0
    IN  [i \in 1..(Len(conversation_history) - start_idx) |->
            HistoryEntry(conversation_history[start_idx + i])]

SystemEntry(system_prompt) == [role |-> "system", content |-> JStr(<<system_prompt>>)]
UserEntry(message) == [role |-> "user", content |-> JStr(message)]

\* the history limits of the analyzer and of _get_raw_response
AnalysisHistoryLimit == 5
GenerationHistoryLimit == 10

\* the message list _get_raw_response builds: the message is added when the
\* history is empty or its last message is not of the user
GenerationRequest(message, conversation_history) ==
    <<SystemEntry("system_prompt")>>
    \o LastEntries(conversation_history, GenerationHistoryLimit)
    \o (IF \/ conversation_history = <<>>
           \/ ~conversation_history[Len(conversation_history)].is_user
        THEN <<UserEntry(message)>> ELSE <<>>)

\* the analyzer's list built by the rule of _get_raw_response
AnalysisRequestAsGeneration(message, conversation_history) ==
    GenerationRequest(message, conversation_history)

\* the message list analyze_conversation builds: the message is added when
\* the history is empty, or its last message has another content or is not
\* of the user
AnalysisRequest(message, conversation_history) ==
    <<SystemEntry("system_prompt")>>
    \o LastEntries(conversation_history, AnalysisHistoryLimit)
    \o (IF \/ conversation_history = <<>>
           \/ conversation_history[Len(conversation_history)].content # JStr(message)
           \/ ~conversation_history[Len(conversation_history)].is_user
        THEN <<UserEntry(message)>> ELSE <<>>)

\* the messages the requests are built for, and the rows of the short
\* histories: of the user or of the assistant, with one of two contents
RequestTexts == {<<"hi">>, <<"x">>}
RequestRows ==
    {[content |-> JStr(<<"hi">>), is_user |-> TRUE, sender_id |-> "device"],
     [content |-> JStr(<<"hi">>), is_user |-> FALSE, sender_id |-> "AI"],
     [content |-> JStr(<<"x">>), is_user |-> TRUE, sender_id |-> "device"]}

\* the most messages of a short history
MaxShortHistory == 6

\* a long conversation of n stored messages, of the user and of the assistant
\* in turn
Alternating(n, user_first) ==
    [i \in 1..n |-> [id |-> i,
                     content |-> JStr(<<"x">>),
                     is_user |-> ((i % 2 = 1) = user_first),
                     sender_id |-> IF (i % 2 = 1) = user_first THEN "device" ELSE "AI"]]

\* the lengths of the long histories, around the two history limits and the
\* page size of get_messages
LongLengths == {9, 10, 11, 99, 100, 101}

\* the conversations a request is built for
RequestStores ==
    {Stored(rows) : rows \in SeqsUpTo(RequestRows, MaxShortHistory)}
    \cup {Alternating(n, u) : n \in LongLengths, u \in BOOLEAN}

(***************************************************************************)
(* State                                                                   *)
(***************************************************************************)

VARIABLES
    pc,             \* where the one invocation stands
    conv,           \* whether the conversation of the request exists
    db,             \* the messages of the conversation, in insertion order
    message,        \* message.content of the request
    history,        \* conversation_history, read once after the user message is saved
    analysis,       \* the analyzer's result
    prompt,         \* system_prompt
    raw_response,   \* the reply of the generation call
    returned,       \* the list process_message returned
    escaped,        \* the exception that left the invocation, or "none"
    calls,          \* the completion calls made so far, oldest first
    sink,           \* the events sent on the websocket, oldest first
    open,           \* whether the websocket still takes events
    full_response,  \* stream_response's full_response
    buffer,         \* stream_response's buffer
    upstream,       \* the lines read from the streaming reply so far
    failure,        \* what made stream_response give up, or "none"
    fn              \* the call of a function taken alone: its arguments and result

vars ==
    <<pc, conv, db, message, history, analysis, prompt, raw_response, returned,
      escaped, calls, sink, open, full_response, buffer, upstream, failure, fn>>

requestVars == <<message, history, analysis, prompt, raw_response, returned, escaped, calls>>
streamVars == <<sink, open, full_response, buffer, upstream, failure>>

NoAnalysis == JObj(<<>>)
NoCall == [done |-> FALSE]

\* the state of one invocation before it starts
InitCommon ==
    /\ pc = "idle"
    /\ message = <<>>
    /\ history = <<>>
    /\ analysis = NoAnalysis
    /\ prompt = ConcisePrompt
    /\ raw_response = <<>>
    /\ returned = <<>>
    /\ escaped = "none"
    /\ calls = <<>>
    /\ sink = <<>>
    /\ open = TRUE
    /\ full_response = <<>>
    /\ buffer = <<>>
    /\ upstream = <<>>
    /\ failure = "none"

(***************************************************************************)
(* Request mode: POST /conversations/{id}/messages/ and process_message    *)
(***************************************************************************)

\* one completion call as the log keeps it
Call(stage, outcome) == [stage |-> stage, kind |-> outcome.kind]

\* Layers 1 and 2: the analysis and the prompt chosen from it
AnalysisLayer(outcome) ==
    LET Both(a, p) == IF ~p.ok THEN Raise(p.exc) ELSE Ok(<<a.val, p.val>>)
        Layer2(a) == IF ~a.ok THEN Raise(a.exc) ELSE Both(a, SelectPrompt(a.val))
    IN  Layer2(AnalyzeConversation(outcome))

\* ChatService._get_raw_response
GetRawResponse(outcome) == PostCompletion(outcome)

\* the handler variant that lets the exception go on to the caller
ReraiseOutcome(d, res) ==
    IF res.ok
    THEN [db |-> AddAll(d, res.val),
          returned |-> SubSeq(AddAll(d, res.val), Len(d) + 1, Len(d) + Len(res.val)),
          escaped |-> "none"]
    ELSE [db |-> d, returned |-> <<>>, escaped |-> res.exc]

\* a process_message that commits after the first message of the batch
ProcessMessageOutcomePartial(d, res) ==
    IF res.ok
    THEN [db |-> AddAll(d, SubSeq(res.val, 1, Min(1, Len(res.val)))),
          returned |-> SubSeq(AddAll(d, SubSeq(res.val, 1, Min(1, Len(res.val)))),
                              Len(d) + 1, Len(d) + Min(1, Len(res.val))),
          escaped |-> "none"]
    ELSE IF ExceptException(res.exc)
    THEN [db |-> AddMessage(d, JStr(ApologyText), FALSE, "AI"),
          returned |-> <<AddMessage(d, JStr(ApologyText), FALSE, "AI")[Len(d) + 1]>>,
          escaped |-> "none"]
    ELSE [db |-> d, returned |-> <<>>, escaped |-> res.exc]

\* how process_message ends once its try block has produced the batch res
\* or raised: the batch is saved and returned, or the handler of
\* "except Exception" saves and returns the apology
ProcessMessageOutcome(d, res) ==
    IF res.ok
    THEN [db |-> AddAll(d, res.val),
          returned |-> SubSeq(AddAll(d, res.val), Len(d) + 1, Len(d) + Len(res.val)),
          escaped |-> "none"]
    ELSE IF ExceptException(res.exc)
    THEN [db |-> AddMessage(d, JStr(ApologyText), FALSE, "AI"),
          returned |-> <<AddMessage(d, JStr(ApologyText), FALSE, "AI")[Len(d) + 1]>>,
          escaped |-> "none"]
    ELSE [db |-> d, returned |-> <<>>, escaped |-> res.exc]

Finish(res) ==
    LET o == ProcessMessageOutcome(db, res)
    IN  /\ db' = o.db
        /\ returned' = o.returned
        /\ escaped' = o.escaped
        /\ pc' = "done"

\* verify_conversation_owner answers 404 for a conversation that does not
\* exist, so process_message is not reached
RejectRequest ==
    /\ pc = "idle"
    /\ ~conv
    /\ pc' = "rejected"
    /\ UNCHANGED <<conv, db, requestVars, streamVars, fn>>

\* process_message that starts on the analysis with the message of the user
\* not yet saved
CreateMessageUnsaved(content) ==
    /\ pc = "idle"
    /\ conv
    /\ message' = content
    /\ history' = GetMessages(db)
    /\ pc' = "analyze"
    /\ UNCHANGED <<conv, db, analysis, prompt, raw_response, returned, escaped, calls,
                   streamVars, fn>>

\* create_message calls process_message: the user message is saved and the
\* history read
CreateMessage(content) ==
    /\ pc = "idle"
    /\ conv
    /\ db' = AddMessage(db, JStr(content), TRUE, "device")
    /\ message' = content
    /\ history' = GetMessages(db')
    /\ pc' = "analyze"
    /\ UNCHANGED <<conv, analysis, prompt, raw_response, returned, escaped, calls,
                   streamVars, fn>>

\* the analysis call comes back; Layer 2 picks the prompt
Analyze(outcome) ==
    /\ pc = "analyze"
    /\ calls' = Append(calls, Call("analysis", outcome))
    /\ LET Layers(r) ==
               IF r.ok
               THEN /\ analysis' = r.val[1]
                    /\ prompt' = r.val[2]
                    /\ pc' = "generate"
                    /\ UNCHANGED <<db, returned, escaped>>
               ELSE /\ Finish(r)
                    /\ UNCHANGED <<analysis, prompt>>
       IN  Layers(AnalysisLayer(outcome))
    /\ UNCHANGED <<conv, message, history, raw_response, streamVars, fn>>

\* the generation call comes back; process_response runs up to its own
\* completion call, or to its end when it makes none
Generate(outcome) ==
    /\ pc = "generate"
    /\ calls' = Append(calls, Call("generation", outcome))
    /\ LET r == GetRawResponse(outcome)
       IN  IF ~r.ok
           THEN Finish(r) /\ UNCHANGED raw_response
           ELSE /\ raw_response' = r.val
                /\ IF MakesProcessingCall(analysis)
                   THEN pc' = "decompose" /\ UNCHANGED <<db, returned, escaped>>
                   ELSE Finish(ProcessResponse(r.val, analysis, Failed("transport")))
    /\ UNCHANGED <<conv, message, history, analysis, prompt, streamVars, fn>>

\* the processing call comes back; the batch is saved and returned
Decompose(outcome) ==
    /\ pc = "decompose"
    /\ calls' = Append(calls, Call("decomposition", outcome))
    /\ Finish(ProcessResponse(raw_response, analysis, outcome))
    /\ UNCHANGED <<conv, message, history, analysis, prompt, raw_response, streamVars, fn>>

\* the state before the request: a conversation that exists holds some
\* earlier messages, one that does not holds none
InitStore ==
    /\ conv \in BOOLEAN
    /\ db \in (IF conv THEN Histories ELSE {<<>>})

Init == InitCommon /\ InitStore /\ fn = NoCall

Next ==
    \/ RejectRequest
    \/ \E content \in UserTexts : CreateMessage(content)
    \/ \E outcome \in PipelineAnalysisOutcomes : Analyze(outcome)
    \/ \E outcome \in GenerationOutcomes : Generate(outcome)
    \/ \E outcome \in DecompositionOutcomes : Decompose(outcome)

Spec == Init /\ [][Next]_vars
(***************************************************************************)
(* Request mode: properties                                                *)
(***************************************************************************)

\* the verdict is a dict whose queryType is SIMPLE and whose
\* recommendedApproach is CONCISE
SimpleConciseVerdict(a) ==
    /\ a.t = "dict"
    /\ Subscript(a, "queryType") = Ok(JStr(<<"SIMPLE">>))
    /\ Subscript(a, "recommendedApproach") = Ok(JStr(<<"CONCISE">>))

IsAssistant(row) == ~row.is_user /\ row.sender_id = "AI"

\* the rows saved since the message of the user
SavedSince == SubSeq(db, Len(history) + 1, Len(db))

\* the completion call of this stage was made and ended this way
Made(stage, kind) == \E i \in 1..Len(calls) : calls[i] = [stage |-> stage, kind |-> kind]

\* the list holds the apology message and nothing else
IsApologyBatch(rows) ==
    /\ Len(rows) = 1
    /\ IsAssistant(rows[1])
    /\ rows[1].content = JStr(ApologyText)

\* the list holds at least one message, and its messages are assistant
\* messages, the last ones saved
IsRealBatch(rows) ==
    /\ rows # <<>>
    /\ Len(rows) <= Len(db)
    /\ rows = SubSeq(db, Len(db) - Len(rows) + 1, Len(db))
    /\ \A i \in 1..Len(rows) : IsAssistant(rows[i])

\* C1: whenever process_message has ended for an existing conversation,
\* whatever the completion endpoint did on each call, it has returned a list
\* with at least one assistant message
C1_OutputNeverEmpty ==
    pc = "done" =>
        /\ escaped = "none"
        /\ \E i \in 1..Len(returned) : IsAssistant(returned[i])

\* the generated reply was two paragraphs of blanks, the decomposition call
\* was answered with a non-success status, and process_message has returned
\* an empty list with nothing saved after the message of the user
C1_Witness ==
    /\ pc = "done"
    /\ raw_response = <<"S", "\n", "\n", "S">>
    /\ Made("decomposition", "status")
    /\ escaped = "none"
    /\ returned = <<>>
    /\ db = history

\* C3: whenever process_message has ended, whatever failed in the analysis,
\* generation or decomposition step, no exception has left it and what it
\* returned is either a real batch or the single apology batch
C3_NeverPropagates ==
    pc = "done" =>
        /\ escaped = "none"
        /\ IsRealBatch(returned) \/ IsApologyBatch(returned)

\* the decomposition call got no answer, the fallback split of a reply of
\* blanks gave nothing, and what process_message has returned is neither a
\* real batch nor the apology batch
C3_Witness ==
    /\ pc = "done"
    /\ Made("decomposition", "transport")
    /\ escaped = "none"
    /\ ~IsRealBatch(returned)
    /\ ~IsApologyBatch(returned)

\* C4: when the generation call was answered with a non-success status,
\* process_message returns exactly one assistant message, the apology, and
\* no exception leaves it
C4_GenerationStatusGivesApology ==
    (pc = "done" /\ Made("generation", "status")) =>
        /\ escaped = "none"
        /\ Len(returned) = 1
        /\ IsAssistant(returned[1])
        /\ returned[1].content = JStr(ApologyText)

\* C4's case: the invocation ended after a generation call that was answered
\* with a non-success status
C4_Witness ==
    /\ pc = "done"
    /\ Len(calls) = 2
    /\ calls[2] = [stage |-> "generation", kind |-> "status"]
    /\ db[Len(db)].content = JStr(ApologyText)

\* C13: whenever process_message has ended, the batch it returned has
\* between one and four elements, whatever list or pattern the reply of the
\* processing model held
C13_BatchSizeBounds ==
    pc = "done" => (1 <= Len(returned) /\ Len(returned) <= 4)

\* the processing model answered with a JSON list of five strings, and the
\* five of them were saved and returned
C13_Witness ==
    /\ pc = "done"
    /\ escaped = "none"
    /\ Made("decomposition", "reply")
    /\ Len(returned) = 5
    /\ returned = SubSeq(db, Len(db) - 4, Len(db))
    /\ [i \in 1..5 |-> returned[i].content]
          = <<JStr(<<"1">>), JStr(<<"2">>), JStr(<<"3">>), JStr(<<"x">>), JStr(<<"hi">>)>>

\* the stages of the completion calls made so far, in the order made
Stages == [i \in 1..Len(calls) |-> calls[i].stage]

\* C21: within one invocation of process_message the completion calls are
\* made one after the other in the order analysis, generation,
\* decomposition, each once at most and each only after the one before it
\* has come back, and the decomposition call is made only for a verdict
\* that is not SIMPLE and CONCISE
C21_StageOrder ==
    /\ Len(calls) <= 3
    /\ Stages = SubSeq(<<"analysis", "generation", "decomposition">>, 1, Len(calls))
    /\ pc \in {"idle", "rejected", "analyze"} => calls = <<>>
    /\ pc = "generate" => Len(calls) = 1
    /\ pc = "decompose" => Len(calls) = 2
    /\ Len(calls) = 3 => ~SimpleConciseVerdict(analysis)
    /\ (pc = "done" /\ Len(calls) = 2 /\ calls[2].kind = "reply") =>
          ~MakesProcessingCall(analysis)

\* all three calls were made and answered, for a THERAPEUTIC verdict
C21_Witness ==
    /\ pc = "done"
    /\ calls = <<[stage |-> "analysis", kind |-> "reply"],
                 [stage |-> "generation", kind |-> "reply"],
                 [stage |-> "decomposition", kind |-> "reply"]>>
    /\ Subscript(analysis, "queryType") = Ok(JStr(<<"THERAPEUTIC">>))
    /\ returned # <<>>

\* the contents of the rows, in order
Contents(rows) == [i \in 1..Len(rows) |-> rows[i].content]

\* the rows are the batch process_response gave for the reply generated,
\* the verdict and some outcome of the processing call that fits the call
\* made, if one was made
IsDecomposedBatch(rows) ==
    \E outcome \in DecompositionOutcomes :
        /\ Len(calls) = 3 => calls[3] = Call("decomposition", outcome)
        /\ ProcessResponse(raw_response, analysis, outcome) = Ok(Contents(rows))

\* C30: while process_message is under way nothing is saved after the
\* message of the user; when it has returned, the messages saved after it
\* are the messages returned, all of the assistant with sender "AI", and
\* they are either the batch of the decomposition, whole and in its order,
\* or the apology alone; the message of the user and the messages before it
\* are as they were saved
C30_AllOrApology ==
    /\ pc \in {"analyze", "generate", "decompose"} => db = history
    /\ pc = "done" =>
          /\ escaped = "none"
          /\ SavedSince = returned
          /\ \A i \in 1..Len(SavedSince) : IsAssistant(SavedSince[i])
          /\ \/ IsApologyBatch(SavedSince)
             \/ /\ Len(calls) >= 2
                /\ calls[2].kind = "reply"
                /\ IsDecomposedBatch(SavedSince)
          /\ SubSeq(db, 1, Len(history)) = history
          /\ history[Len(history)] = [id |-> Len(history), content |-> JStr(message),
                                      is_user |-> TRUE, sender_id |-> "device"]

\* the processing model has answered with a list of two messages, and the
\* two are saved after the message of the user, in the order of the list
C30_Witness ==
    /\ pc = "done"
    /\ Len(calls) = 3
    /\ calls[3].kind = "reply"
    /\ Contents(SavedSince) = <<JStr(<<"x">>), JStr(<<"hi">>)>>
    /\ returned = SavedSince
    /\ db[Len(history)].content = JStr(message)
    /\ ~IsApologyBatch(SavedSince)

(***************************************************************************)
(* The analyzer taken alone                                                *)
(***************************************************************************)

\* what the endpoint would answer to a second call of the analyzer
RetryOutcomes ==
    {Failed("transport"),
     Reply(ObjText(<<Member("queryType", "SIMPLE"),
                     Member("recommendedApproach", "CONCISE")>>))}

\* analyze_conversation is entered: no completion call is made yet; the
\* endpoint will answer the first call with fn.outcome and any later call
\* with fn.retry
InitAnalyze ==
    /\ InitCommon
    /\ conv = TRUE
    /\ db = <<>>
    /\ fn \in {[done |-> FALSE, at |-> "start", outcome |-> o, retry |-> r,
                posts |-> 0, reply |-> Failed("none"), result |-> RaiseJ("none")] :
                o \in AnalysisOutcomes, r \in RetryOutcomes}

\* the request is built and client.post is awaited: one more completion
\* call is made, and it ends as the endpoint answers it
AnalyzePost ==
    /\ fn.at = "start"
    /\ fn' = [fn EXCEPT !.at = "posted",
                        !.posts = @ + 1,
                        !.reply = IF fn.posts = 0 THEN fn.outcome ELSE fn.retry]
    /\ UNCHANGED <<pc, conv, db, requestVars, streamVars>>

\* the call was answered and the body of the try ends without an
\* exception: the verdict parsed, or the default of the parse, is returned
AnalyzeReturn ==
    /\ fn.at = "posted"
    /\ LET Return(body) ==
               /\ body.ok
               /\ fn' = [fn EXCEPT !.at = "done", !.done = TRUE,
                                   !.result = AnalyzeConversation(fn.reply)]
       IN  Return(AnalyzeBody(fn.reply))
    /\ UNCHANGED <<pc, conv, db, requestVars, streamVars>>

\* a handler of "except Exception" that goes back to the call once when
\* the call or the body of the try has raised
AnalyzeHandlerRetrying ==
    /\ fn.at = "posted"
    /\ LET Handle(body) ==
               /\ ~body.ok
               /\ fn' = IF fn.posts < 2
                        THEN [fn EXCEPT !.at = "start"]
                        ELSE [fn EXCEPT !.at = "done", !.done = TRUE,
                                        !.result = AnalyzeConversation(fn.reply)]
       IN  Handle(AnalyzeBody(fn.reply))
    /\ UNCHANGED <<pc, conv, db, requestVars, streamVars>>

\* the call or the body of the try has raised: the handler of "except
\* Exception" returns its default, and the method is over
AnalyzeHandler ==
    /\ fn.at = "posted"
    /\ LET Handle(body) ==
               /\ ~body.ok
               /\ fn' = [fn EXCEPT !.at = "done", !.done = TRUE,
                                   !.result = AnalyzeConversation(fn.reply)]
       IN  Handle(AnalyzeBody(fn.reply))
    /\ UNCHANGED <<pc, conv, db, requestVars, streamVars>>

NextAnalyze == AnalyzePost \/ AnalyzeReturn \/ AnalyzeHandler

SpecAnalyze == InitAnalyze /\ [][NextAnalyze]_vars

\* the value has this key, and under it one of these words
HasWord(v, key, words) ==
    /\ Subscript(v, key).ok
    /\ \E w \in words : Subscript(v, key).val = JStr(<<w>>)

\* the reply text fails the parse of the whole and has no braces to cut at
\* or fails the parse of the part between the first and the last brace
FailsBothParses(text) ==
    /\ ~JsonLoads(text).ok
    /\ \/ Find(text, "{") = 0
       \/ RFind(text, "}") = 0
       \/ ~JsonLoads(SubSeq(text, Find(text, "{"), RFind(text, "}"))).ok

\* the part of the text from its first opening brace to its last closing
\* brace, parsed; a failure if one of the braces is missing
ParseBetweenBraces(text) ==
    IF Find(text, "{") = 0 \/ RFind(text, "}") = 0 THEN RaiseJ("NoBraces")
    ELSE JsonLoads(SubSeq(text, Find(text, "{"), RFind(text, "}")))

\* C24: when the endpoint replies, the result is the value of the whole
\* reply text if that parses; if it does not, the value of the part from the
\* first opening brace to the last closing brace if both braces are there
\* and the part parses; and the safe default in every other case
C24_TwoStepParse ==
    (fn.done /\ fn.outcome.kind = "reply") =>
        LET Rule(whole, part) ==
                IF whole.ok THEN fn.result = Ok(whole.val)
                ELSE IF part.ok THEN fn.result = Ok(part.val)
                ELSE fn.result \in {Ok(DefaultAnalysis), Ok(ErrorAnalysis)}
        IN  Rule(JsonLoads(fn.outcome.content), ParseBetweenBraces(fn.outcome.content))

\* a reply of prose around an object: the whole does not parse, the part
\* between the braces does, and its value is the result
C24_Witness ==
    /\ fn.done
    /\ fn.outcome.kind = "reply"
    /\ ~JsonLoads(fn.outcome.content).ok
    /\ Find(fn.outcome.content, "{") > 1
    /\ ParseBetweenBraces(fn.outcome.content).ok
    /\ fn.result = Ok(ParseBetweenBraces(fn.outcome.content).val)
    /\ fn.result # Ok(DefaultAnalysis)

\* C9: every result the analyzer returns has queryType SIMPLE or
\* THERAPEUTIC and recommendedApproach CONCISE or DETAILED, whatever the
\* reply text was
C9_EnumsAlwaysValid ==
    (fn.done /\ fn.result.ok) =>
        /\ HasWord(fn.result.val, "queryType", {"SIMPLE", "THERAPEUTIC"})
        /\ HasWord(fn.result.val, "recommendedApproach", {"CONCISE", "DETAILED"})

\* C10: the analyzer never raises, and when its call failed (no answer, a
\* non-success status, an answer without the expected structure) or the
\* reply text failed both parse steps, it returns a result with queryType
\* THERAPEUTIC and recommendedApproach DETAILED
C10_NeverRaisesSafeDefault ==
    fn.done =>
        /\ fn.result.ok
        /\ (\/ fn.outcome.kind \in FailureKinds
            \/ FailsBothParses(fn.outcome.content))
           => /\ HasWord(fn.result.val, "queryType", {"THERAPEUTIC"})
              /\ HasWord(fn.result.val, "recommendedApproach", {"DETAILED"})

\* C10's case: a reply with braces that fails both parse steps has been
\* answered with the default of the error handler
C10_Witness ==
    /\ fn.done
    /\ fn.outcome.kind = "reply"
    /\ Find(fn.outcome.content, "{") # 0
    /\ FailsBothParses(fn.outcome.content)
    /\ fn.result = Ok(ErrorAnalysis)

\* C22: one invocation of the analyzer makes one completion call and no
\* more: none before the call is awaited, one from then on, and the reply
\* dealt with is the reply of that call; when the call fails or its reply
\* fails both parse steps, one of the two safe defaults is returned, and
\* what a second call would have been answered is of no account
C22_OneCallNoRetry ==
    /\ fn.posts = (IF fn.at = "start" THEN 0 ELSE 1)
    /\ fn.at # "start" => fn.reply = fn.outcome
    /\ fn.done =>
          /\ fn.at = "done"
          /\ (\/ fn.outcome.kind \in FailureKinds
              \/ FailsBothParses(fn.outcome.content))
             => fn.result \in {Ok(DefaultAnalysis), Ok(ErrorAnalysis)}

\* the call was answered with a non-success status, a second call would
\* have been answered with a verdict, and the default of the error handler
\* has been returned after one call
C22_Witness ==
    /\ fn.done
    /\ fn.outcome = Failed("status")
    /\ fn.reply = Failed("status")
    /\ fn.retry.kind = "reply"
    /\ fn.posts = 1
    /\ fn.result = Ok(ErrorAnalysis)

\* a reply that parses as an object with another word for queryType has
\* been returned as it is
C9_Witness ==
    /\ fn.done
    /\ fn.result.ok
    /\ Subscript(fn.result.val, "queryType") = Ok(JStr(<<"OTHER">>))

(***************************************************************************)
(* The decomposer taken alone                                              *)
(***************************************************************************)

\* the verdicts the analyzer hands on
Analyses == {AnalyzeConversation(o).val : o \in PipelineAnalysisOutcomes}

\* the arguments process_response is applied to and the outcome of its
\* completion call: every raw text and verdict with a few outcomes, and
\* every outcome with a few raw texts
DecomposeInputs ==
    (RawTexts \X Analyses
        \X {Failed("transport"), Reply(<<>>), Reply(ArrText(<<StrText("x"), StrText("hi")>>))})
    \cup ({<<>>, <<"x">>, <<"X", "X">>} \X {DefaultAnalysis} \X DecompositionOutcomes)

\* process_response is entered: no completion call is made yet
InitDecompose ==
    /\ InitCommon
    /\ conv = TRUE
    /\ db = <<>>
    /\ fn \in {[done |-> FALSE, at |-> "start", raw_response |-> i[1],
                analysis |-> i[2], outcome |-> i[3], called |-> FALSE,
                split |-> <<>>, result |-> Raise("none")] :
                    i \in DecomposeInputs}

\* process_response ends before its completion call: the first branch
\* returns or its condition raises, or building the request raises and the
\* handler runs; fn.split is what the splitter was called on
DecomposeWithoutCall ==
    /\ fn.at = "start"
    /\ ~MakesProcessingCall(fn.analysis)
    /\ fn' = [fn EXCEPT !.at = "done", !.done = TRUE,
                        !.split = SplitterArguments(fn.raw_response, fn.analysis, fn.outcome),
                        !.result = ProcessResponse(fn.raw_response, fn.analysis, fn.outcome)]
    /\ UNCHANGED <<pc, conv, db, requestVars, streamVars>>

\* the request is built and client.post is awaited: the completion call is
\* made, and nothing is returned while it is not answered
DecomposePost ==
    /\ fn.at = "start"
    /\ MakesProcessingCall(fn.analysis)
    /\ fn' = [fn EXCEPT !.at = "posted", !.called = TRUE]
    /\ UNCHANGED <<pc, conv, db, requestVars, streamVars>>

\* the completion call has ended as fn.outcome: the messages extracted
\* from the reply are returned, or the splitter is called in the try block
\* or in the handler; fn.split is what the splitter was called on
DecomposeReturn ==
    /\ fn.at = "posted"
    /\ fn' = [fn EXCEPT !.at = "done", !.done = TRUE,
                        !.split = SplitterArguments(fn.raw_response, fn.analysis, fn.outcome),
                        !.result = ProcessResponse(fn.raw_response, fn.analysis, fn.outcome)]
    /\ UNCHANGED <<pc, conv, db, requestVars, streamVars>>

NextDecompose == DecomposeWithoutCall \/ DecomposePost \/ DecomposeReturn

SpecDecompose == InitDecompose /\ [][NextDecompose]_vars

\* C2: process_response always returns a list that is not empty and holds
\* only strings that are not empty, whatever the raw text, the verdict and
\* the reply of the processing model
C2_NonEmptyListOfNonEmptyStrings ==
    fn.done =>
        /\ fn.result.ok
        /\ fn.result.val # <<>>
        /\ \A i \in 1..Len(fn.result.val) :
              fn.result.val[i].t = "str" /\ fn.result.val[i].s # <<>>

\* a reply of three sentences in one paragraph of 206 characters: with the
\* processing call unanswered the fallback splitter is run and its import
\* fails, and the exception leaves process_response
C2_Witness ==
    /\ fn.done
    /\ fn.raw_response = <<"X", ".", " ", "X", ".", " ", "x", ".">>
    /\ fn.outcome.kind = "transport"
    /\ fn.result = Raise("ImportError")

\* the completion call of process_response was made and failed, or it
\* answered and the extraction found no message in the reply
CallOrExtractionFailed ==
    /\ MakesProcessingCall(fn.analysis)
    /\ \/ fn.outcome.kind # "reply"
       \/ ExtractMessagesFromResponse(fn.outcome.content) = <<>>

\* C11: process_response has no failure exit: whatever the raw text, when
\* its completion call fails or the extraction finds nothing it returns a
\* batch computed from the raw text and raises nothing
C11_NoFailureExit ==
    (fn.done /\ CallOrExtractionFailed) =>
        /\ fn.result.ok
        /\ fn.result = FallbackMessages(fn.raw_response)

\* the processing model answers with an empty text for a reply of three
\* sentences: the extraction finds nothing, the splitter is run inside the
\* try block and again in the handler, and the second ImportError leaves
C11_Witness ==
    /\ fn.done
    /\ fn.raw_response = <<"X", ".", " ", "X", ".", " ", "x", ".">>
    /\ fn.analysis = DefaultAnalysis
    /\ fn.outcome = Reply(<<>>)
    /\ fn.result = Raise("ImportError")

\* C12: for a SIMPLE and CONCISE verdict process_response returns exactly
\* the one-element batch of the raw text, unchanged, and makes no
\* completion call, so that nothing is extracted or split
C12_ShortCircuit ==
    (fn.done /\ SimpleConciseVerdict(fn.analysis)) =>
        /\ fn.result = Ok(<<JStr(fn.raw_response)>>)
        /\ ~fn.called

\* a SIMPLE and CONCISE verdict for a reply of three sentences in 206
\* characters, which the splitter would not leave whole, and a processing
\* model that would have answered with two messages
C12_Witness ==
    /\ fn.done
    /\ SimpleConciseVerdict(fn.analysis)
    /\ fn.raw_response = <<"X", ".", " ", "X", ".", " ", "x", ".">>
    /\ fn.outcome = Reply(ArrText(<<StrText("x"), StrText("hi")>>))
    /\ fn.result = Ok(<<JStr(fn.raw_response)>>)
    /\ ~fn.called

\* the verdict is read as not both SIMPLE and CONCISE
NotSimpleConcise(verdict) ==
    IsSimpleConcise(verdict).ok /\ ~IsSimpleConcise(verdict).val

\* no reply of the processing model was obtained: the request for it could
\* not be built, or the call was not answered with a reply
DecompositionCallFailed == ~MakesProcessingCall(fn.analysis) \/ fn.outcome.kind # "reply"

\* C25: for a verdict that is not both SIMPLE and CONCISE the splitter is
\* called if and only if no reply of the processing model was obtained or
\* nothing was extracted from the reply, every call of it is on the raw
\* text, and when messages were extracted they are the result and the
\* splitter is not called
C25_FallbackSelection ==
    (fn.done /\ NotSimpleConcise(fn.analysis)) =>
        LET Rule(nothing) ==
                /\ fn.split # <<>> <=> (DecompositionCallFailed \/ nothing)
                /\ \A i \in 1..Len(fn.split) : fn.split[i] = fn.raw_response
                /\ (~DecompositionCallFailed /\ ~nothing) =>
                        /\ fn.result = Ok(ExtractMessagesFromResponse(fn.outcome.content))
                        /\ fn.split = <<>>
        IN  Rule(fn.outcome.kind = "reply"
                    => ExtractMessagesFromResponse(fn.outcome.content) = <<>>)

\* the processing model answers with prose from which nothing is extracted,
\* and the splitter is called on the raw text, which is another text
C25_Witness ==
    /\ fn.done
    /\ NotSimpleConcise(fn.analysis)
    /\ fn.outcome.kind = "reply"
    /\ fn.outcome.content # <<>>
    /\ fn.outcome.content # fn.raw_response
    /\ ExtractMessagesFromResponse(fn.outcome.content) = <<>>
    /\ fn.split = <<fn.raw_response>>
    /\ fn.result = FallbackMessages(fn.raw_response)
    /\ fn.result.ok

(***************************************************************************)
(* The fallback splitter taken alone                                       *)
(***************************************************************************)

\* the paragraphs of the texts the splitter is run on: a short word, 100
\* blanks, 100 letters
SplitParagraphs == {<<"x">>, <<"S">>, <<"X">>}

\* the most paragraphs of a text the splitter is run on
MaxSplitParagraphs == 6

\* one paragraph of two, three and six sentences, each of 200 characters
\* or more
SentenceTexts ==
    {<<"X", ".", " ", "X", ".">>,
     <<"X", ".", " ", "X", ".", " ", "x", ".">>,
     <<"X", "!", " ", "X", "?", "\n", "x", ".", " ", "x", ".", " ", "x", ".", " ", "x", ".">>}

SplitTexts ==
    {Join(BlankLine, ps) : ps \in SeqsUpTo(SplitParagraphs, MaxSplitParagraphs)}
    \cup SentenceTexts

\* a text the same instance is also asked to split, between the calls on
\* the text looked at
OtherText == <<"X", "\n", "\n", "x", "\n", "\n", "X">>

\* the most calls made on one instance
MaxCalls == 3

\* the instance is there and no call is made yet; the cache of the
\* interpreter holds none of the modules of the splitter, or all of them
InitSplit ==
    /\ InitCommon
    /\ conv = TRUE
    /\ db = <<>>
    /\ fn \in {[raw_message |-> t, made |-> <<>>, loaded |-> c, caches |-> <<>>] :
                t \in SplitTexts, c \in {{}, SplitterModules}}

\* _split_message_with_fallback is called on the text looked at or on the
\* other text with the cache the earlier calls have left; the call, its
\* outcome and the cache it has found are recorded
ApplySplit ==
    /\ Len(fn.made) < MaxCalls
    /\ \E t \in {fn.raw_message, OtherText} :
          LET Record(call) ==
                  fn' = [fn EXCEPT !.made = Append(@, [raw_message |-> t,
                                                      result |-> call.result]),
                                   !.loaded = call.loaded,
                                   !.caches = Append(@, fn.loaded)]
          IN  Record(SplitCall(t, fn.loaded))
    /\ UNCHANGED <<pc, conv, db, requestVars, streamVars>>

NextSplit == ApplySplit

SpecSplit == InitSplit /\ [][NextSplit]_vars

\* C14: the splitter never fails and never returns an empty list
C14_SplitterNeverFailsNorEmpty ==
    \A i \in 1..Len(fn.made) :
        /\ fn.made[i].result.ok
        /\ fn.made[i].result.val # <<>>

\* a text of two paragraphs of 100 blanks each: the splitter has returned
\* the empty list
C14_Witness ==
    /\ fn.raw_message = <<"S", "\n", "\n", "S">>
    /\ fn.made # <<>>
    /\ fn.made[1] = [raw_message |-> fn.raw_message, result |-> Ok(<<>>)]

\* the batches are the paragraphs in their order, each paragraph in one
\* batch: put together again with blank lines they give the paragraphs put
\* together with blank lines
MergedInOrder(paragraphs, batches) ==
    /\ 1 <= Len(batches)
    /\ Len(batches) <= 4
    /\ Join(BlankLine, batches) = Join(BlankLine, paragraphs)

\* C15: for a text of 200 or more characters with more than four
\* paragraphs the splitter returns at most four batches that hold every
\* paragraph once, in the order of the text
C15_ParagraphMerge ==
    \A i \in 1..Len(fn.made) :
        (/\ PyLen(fn.made[i].raw_message) >= ShortMessageLimit
         /\ Len(ParagraphSplit(fn.made[i].raw_message)) > 4) =>
            /\ fn.made[i].result.ok
            /\ MergedInOrder(ParagraphSplit(fn.made[i].raw_message),
                             fn.made[i].result.val)

\* a text of six paragraphs of 100 letters each: the branch for more than
\* four paragraphs is taken and its import fails
C15_Witness ==
    /\ fn.raw_message = Join(BlankLine, [k \in 1..6 |-> <<"X">>])
    /\ Len(ParagraphSplit(fn.raw_message)) = 6
    /\ fn.made # <<>>
    /\ fn.made[1] = [raw_message |-> fn.raw_message, result |-> Raise("ImportError")]

\* the batches are the sentences in their order, each sentence in one
\* batch, at most three batches, the sentences of a batch joined with a
\* blank line
SentencesMerged(sentences, batches) ==
    /\ 1 <= Len(batches)
    /\ Len(batches) <= 3
    /\ Join(BlankLine, batches) = Join(BlankLine, sentences)

\* C26: for a text of 200 or more characters in one paragraph of three or
\* more sentences the splitter returns at most three batches that hold
\* every sentence once, in the order of the text, joined with a blank line
C26_SentenceMerge ==
    \A i \in 1..Len(fn.made) :
        (/\ PyLen(fn.made[i].raw_message) >= ShortMessageLimit
         /\ Len(ParagraphSplit(fn.made[i].raw_message)) = 1
         /\ Len(SentenceSplit(fn.made[i].raw_message)) >= 3) =>
            /\ fn.made[i].result.ok
            /\ SentencesMerged(SentenceSplit(fn.made[i].raw_message),
                               fn.made[i].result.val)

\* one paragraph of three sentences in 206 characters: the branch for
\* three or more sentences is taken and its import fails
C26_Witness ==
    /\ fn.raw_message = <<"X", ".", " ", "X", ".", " ", "x", ".">>
    /\ Len(ParagraphSplit(fn.raw_message)) = 1
    /\ Len(SentenceSplit(fn.raw_message)) = 3
    /\ fn.made # <<>>
    /\ fn.made[1] = [raw_message |-> fn.raw_message, result |-> Raise("ImportError")]

ArrayItems ==
    {[text |-> StrText("x"), val |-> <<"x">>],
     [text |-> <<"\"", "hi", " ", "there", "\"">>, val |-> <<"hi", " ", "there">>],
     [text |-> <<"\"", "\\", "\"", "\"">>, val |-> <<"\"">>]}

\* the arrays: one, two and three of these strings, and five words
ArrayChoices ==
    {<<a>> : a \in ArrayItems}
    \cup {<<a, b>> : a, b \in ArrayItems}
    \cup {<<[text |-> StrText("x"), val |-> <<"x">>],
            [text |-> StrText("hi"), val |-> <<"hi">>],
            [text |-> <<"\"", "\\", "\"", "\"">>, val |-> <<"\"">>]>>,
          [k \in 1..5 |-> [text |-> StrText(<<"1", "2", "3", "x", "hi">>[k]),
                           val |-> <<<<"1", "2", "3", "x", "hi">>[k]>>]]}

\* the text of an array, written tight or with blanks around its items
ArrayText(array, spaced) ==
    IF spaced
    THEN <<"[", " ">> \o Join(<<" ", ",", "\n">>, [k \in 1..Len(array) |-> array[k].text])
                     \o <<" ", "]">>
    ELSE ArrText([k \in 1..Len(array) |-> array[k].text])

\* what the reply holds before the array: nothing, prose, a fenced code
\* block with a list of a number, brackets with a number, numbered lines
BeforeArray ==
    {<<>>,
     <<"x", " ">>,
     <<Fence, "json", "\n", "[", "1", "]", "\n", Fence, "\n">>,
     <<"[", "1", "]", " ">>,
     <<"1", ".", " ", "x", "\n", "2", ".", " ", "hi", "\n">>}

\* what the reply holds after the array: nothing, prose, a fenced code block
\* with another array of strings, brackets with a number, a closing bracket
AfterArray ==
    {<<>>,
     <<" ", "x">>,
     <<"\n", Fence, "json", "\n">> \o ArrText(<<StrText("there")>>) \o <<"\n", Fence>>,
     <<" ", "[", "1", "]">>,
     <<" ", "]">>}

InitExtract ==
    /\ InitCommon
    /\ conv = TRUE
    /\ db = <<>>
    /\ fn \in {[done |-> FALSE, array |-> a,
                processed_text |-> b \o ArrayText(a, sp) \o c, result |-> <<>>] :
                a \in ArrayChoices, sp \in BOOLEAN, b \in BeforeArray, c \in AfterArray}

\* _extract_messages_from_response is called on the reply
ApplyExtract ==
    /\ ~fn.done
    /\ fn' = [fn EXCEPT !.done = TRUE,
                        !.result = ExtractMessagesFromResponse(fn.processed_text)]
    /\ UNCHANGED <<pc, conv, db, requestVars, streamVars>>

NextExtract == ApplyExtract

SpecExtract == InitExtract /\ [][NextExtract]_vars

\* C16: when the reply holds a well-formed array of quoted strings, what
\* the extraction returns is the list of the strings of that array, as they
\* are, whatever fenced code block or other brackets the reply also holds
C16_Method1Precedence ==
    fn.done => fn.result = [k \in 1..Len(fn.array) |-> JStr(fn.array[k].val)]

\* a reply with a fenced code block of another list before the array and
\* a fenced code block of another array of strings after it
C16_Witness ==
    /\ fn.done
    /\ fn.processed_text
          = <<Fence, "json", "\n", "[", "1", "]", "\n", Fence, "\n">>
            \o ArrText(<<StrText("x")>>)
            \o <<"\n", Fence, "json", "\n">> \o ArrText(<<StrText("there")>>)
            \o <<"\n", Fence>>
    /\ fn.result = <<JStr(<<"x">>)>>
    /\ ExtractMethod3(fn.processed_text) = Ok(<<JNum(<<"1">>)>>)

(***************************************************************************)
(* Streaming mode: the websocket endpoint and stream_response              *)
(***************************************************************************)

\* the events put on the websocket
ChunkEvent(content) == [type |-> "chunk", content |-> content, message_id |-> 0]
CompleteEvent(id) == [type |-> "complete", content |-> <<>>, message_id |-> id]
ErrorEvent(text) == [type |-> "error", content |-> text, message_id |-> 0]

\* the texts of the error events; the status told is 500
NotFoundError == <<"Conversation not found">>
StatusError == <<"API request failed with status: ", "500">>
StreamError == <<"Sorry, there was an error processing your message.">>

\* the exceptions a send raises once the client is gone: which of the two
\* depends on the versions of the websocket library and of the server, and
\* may differ from one send to the next
SendFailures == {"RuntimeError", "WebSocketDisconnect"}

\* what a send does once the client is gone: it raises one of the two, or,
\* over a server that drops what is sent on a closed connection, it returns
\* and delivers nothing; the repository names no server
SendOutcomes == SendFailures \cup {"returns"}

\* the send variant that delivers the newest event ahead of the earlier ones
SendJsonAhead(isOpen, events, event, lost) ==
    IF isOpen THEN Ok(<<event>> \o events)
    ELSE IF lost = "returns" THEN Ok(events) ELSE Raise(lost)

\* websocket.send_json: the events delivered so far with this one added;
\* on a websocket whose client is gone nothing is delivered and the send
\* raises the exception lost or returns
SendJson(isOpen, events, event, lost) ==
    IF isOpen THEN Ok(Append(events, event))
    ELSE IF lost = "returns" THEN Ok(events) ELSE Raise(lost)

\* line.startswith("data: ")
DataPrefix == "data: "
IsDataLine(line) == line # <<>> /\ Head(line) = DataPrefix

\* the sentinel that ends the stream
DoneData == <<"[DONE]">>

\* value[0]
Index0(value) ==
    IF value.t = "list"
    THEN IF value.items = <<>> THEN RaiseJ("IndexError") ELSE Ok(value.items[1])
    ELSE IF value.t = "str"
    THEN IF value.s = <<>> THEN RaiseJ("IndexError") ELSE Ok(JStr(<<Head(value.s)>>))
    ELSE IF value.t = "dict" THEN RaiseJ("KeyError")
    ELSE RaiseJ("TypeError")

\* value.get(key, "")
GetOrEmpty(value, key) ==
    LET Got(v) == IF v.ok THEN v ELSE Ok(JStr(<<>>))
    IN  IF value.t # "dict" THEN RaiseJ("AttributeError")
        ELSE Got(Subscript(value, key))

\* bool(value)
Truthy(value) ==
    \/ value.t = "str" /\ value.s # <<>>
    \/ value.t = "num"
    \/ value.t = "list" /\ value.items # <<>>
    \/ value.t = "dict" /\ value.fields # <<>>

\* json.loads(data) and parsed["choices"][0]["delta"].get("content", "")
DeltaContent(data) ==
    LET Content(delta) ==
            IF ~delta.ok THEN delta ELSE GetOrEmpty(delta.val, "content")
        Delta(first) ==
            IF ~first.ok THEN first ELSE Content(Subscript(first.val, "delta"))
        First(choices) ==
            IF ~choices.ok THEN choices ELSE Delta(Index0(choices.val))
        Choices(parsed) ==
            IF ~parsed.ok THEN parsed ELSE First(Subscript(parsed.val, "choices"))
    IN  Choices(JsonLoads(data))

\* the length past which the buffer is emptied
BufferLimit == 100

\* buffer after the send of a chunk: emptied at the end of a sentence or a
\* line and when it has grown past the limit
ResetBuffer(buf) ==
    IF buf[Len(buf)] \in {".", "!", "?", "\n"} \/ PyLen(buf) > BufferLimit
    THEN <<>> ELSE buf

\* what one line of the reply does: nothing ("skip"), end the loop ("done"),
\* forward a content ("chunk"), or raise
LineStep(line) ==
    LET Step(content) ==
            IF ~content.ok
            THEN IF ExceptJSONDecodeError(content.exc)
                 THEN [do |-> "skip", content |-> <<>>, exc |-> "none"]
                 ELSE [do |-> "raise", content |-> <<>>, exc |-> content.exc]
            ELSE IF ~Truthy(content.val)
            THEN [do |-> "skip", content |-> <<>>, exc |-> "none"]
            ELSE IF content.val.t # "str"
            THEN [do |-> "raise", content |-> <<>>, exc |-> "TypeError"]
            ELSE [do |-> "chunk", content |-> content.val.s, exc |-> "none"]
    IN  IF ~IsDataLine(line) THEN [do |-> "skip", content |-> <<>>, exc |-> "none"]
        ELSE IF Tail(line) = DoneData
        THEN [do |-> "done", content |-> <<>>, exc |-> "none"]
        ELSE Step(DeltaContent(Tail(line)))

\* the lines of the reply of the streaming call
DataLine(data) == <<DataPrefix>> \o data
DeltaLine(content) ==
    DataLine(ObjText(<<<<"\"", "choices", "\"", ":", "[">>
                       \o ObjText(<<<<"\"", "delta", "\"", ":">>
                                    \o ObjText(<<<<"\"", "content", "\"", ":", "\"">>
                                                 \o content \o <<"\"">>>>)>>)
                       \o <<"]">>>>))
DoneLine == DataLine(DoneData)
InvalidJsonLine == DataLine(<<"{">>)
NoChoicesLine == DataLine(<<"{", "}">>)
BlankTextLine == <<>>

\* the contents of the deltas: two words, a full stop, nothing
DeltaContents == {<<"Hi">>, <<" ", "there">>, <<".">>, <<>>}
DeltaLines == {DeltaLine(c) : c \in DeltaContents}
MalformedLines == {InvalidJsonLine, NoChoicesLine}
StreamLines == DeltaLines \cup MalformedLines \cup {DoneLine, BlankTextLine}

\* the most lines read from one reply
MaxLines == 3

\* the outcomes of the analysis call streaming is run on: no answer, the
\* short verdict, a full verdict, a list, an object without its last fields
StreamAnalysisOutcomes ==
    {Failed("transport"),
     Reply(ObjText(<<Member("queryType", "SIMPLE"),
                     Member("recommendedApproach", "CONCISE")>>)),
     Reply(ObjText(<<Member("queryType", "THERAPEUTIC"),
                     Member("recommendedApproach", "CONCISE"),
                     Member("emotionalState", "x"),
                     Member("conversationSummary", "x")>>)),
     Reply(<<"[", "]">>),
     Reply(ObjText(<<Member("queryType", "THERAPEUTIC")>>))}

\* the outcomes of the streaming call: no answer, a non-success status, a
\* reply that is then read line by line
StreamOutcomes == {Failed("transport"), Failed("status"), [kind |-> "stream", content |-> <<>>]}

\* a handler that sends its error event a second time before it saves
StreamHandlerSendingTwice(events, isOpen, lost) ==
    LET sent == SendJson(isOpen, events, ErrorEvent(StreamError), lost)
    IN  IF sent.ok
        THEN [sink |-> Append(sent.val, ErrorEvent(StreamError)), escaped |-> "none",
              pc |-> "s_error"]
        ELSE [sink |-> events, escaped |-> sent.exc, pc |-> "done"]

\* a handler that goes on to save the apology whether or not its send went
\* through
StreamHandlerSavingAlways(events, isOpen, lost) ==
    LET sent == SendJson(isOpen, events, ErrorEvent(StreamError), lost)
    IN  [sink |-> IF sent.ok THEN sent.val ELSE events,
         escaped |-> IF sent.ok THEN "none" ELSE sent.exc,
         pc |-> "s_error"]

\* the handler of "except Exception" of stream_response up to the end of its
\* send: the error event has gone out (or was dropped by a send that
\* returns) and the apology is still to be saved, or the send has raised
\* and its exception leaves the handler at once
StreamHandler(events, isOpen, lost) ==
    LET sent == SendJson(isOpen, events, ErrorEvent(StreamError), lost)
    IN  IF sent.ok
        THEN [sink |-> sent.val, escaped |-> "none", pc |-> "s_error"]
        ELSE [sink |-> events, escaped |-> sent.exc, pc |-> "done"]

\* a stream_response that goes on reading the reply after a send of its
\* handler has failed
GiveUpAndResume(exc, lost) ==
    LET o == StreamHandler(sink, open, lost)
    IN  /\ failure' = exc
        /\ db' = db
        /\ sink' = o.sink
        /\ escaped' = o.escaped
        /\ pc' = IF pc = "s_read" /\ o.escaped # "none" THEN "s_read" ELSE o.pc

\* stream_response gives up on the exception exc and its handler sends the
\* error event; lost is what that send does if the client is gone
GiveUp(exc, lost) ==
    LET o == StreamHandler(sink, open, lost)
    IN  /\ failure' = exc
        /\ db' = db
        /\ sink' = o.sink
        /\ escaped' = o.escaped
        /\ pc' = o.pc

\* the full text after a content is added to it
AddContent(full, content) == full \o content

\* the save variant that keeps the sentence buffer instead of the full text
SaveBuffer(d, full, buf) == AddMessage(d, JStr(buf), FALSE, "AI")

\* the message saved when the reply has ended
SaveResponse(d, full, buf) == AddMessage(d, JStr(full), FALSE, "AI")

\* the websocket endpoint answers a conversation that does not exist with
\* an error event and waits in the send; when the send raises, the handler
\* of the checks sends an error event of its own, that send raises again
\* and the exception leaves the endpoint
RejectStream(lost, again) ==
    /\ pc = "idle"
    /\ ~conv
    /\ LET sent == SendJson(open, sink, ErrorEvent(NotFoundError), lost)
       IN  IF sent.ok
           THEN sink' = sent.val /\ pc' = "closing" /\ escaped' = escaped
           ELSE sink' = sink /\ pc' = "rejected" /\ escaped' = again
    /\ UNCHANGED <<conv, db, message, history, analysis, prompt, raw_response,
                   returned, calls, open, full_response, buffer, upstream,
                   failure, fn>>

\* the send of the error event is over and the endpoint closes the
\* websocket; when the client has gone meanwhile the close returns, or it
\* raises and the send of the handler of the checks raises after it
CloseStream(lost, again) ==
    /\ pc = "closing"
    /\ open' = FALSE
    /\ pc' = "rejected"
    /\ escaped' = IF open \/ lost = "returns" THEN escaped ELSE again
    /\ UNCHANGED <<conv, db, message, history, analysis, prompt, raw_response,
                   returned, calls, sink, full_response, buffer, upstream,
                   failure, fn>>

\* a message arrives on the websocket of a client that is there;
\* stream_response saves it and reads the history
StreamMessage(content) ==
    /\ pc = "idle"
    /\ conv
    /\ open
    /\ db' = AddMessage(db, JStr(content), TRUE, "device")
    /\ message' = content
    /\ history' = GetMessages(db')
    /\ pc' = "s_analyze"
    /\ UNCHANGED <<conv, analysis, prompt, raw_response, returned, escaped, calls,
                   streamVars, fn>>

\* the analysis call comes back; Layer 2 picks the prompt; lost is what a
\* send does if the client is gone
StreamAnalyze(outcome, lost) ==
    /\ pc = "s_analyze"
    /\ calls' = Append(calls, Call("analysis", outcome))
    /\ LET Layers(r) ==
               IF r.ok
               THEN /\ analysis' = r.val[1]
                    /\ prompt' = r.val[2]
                    /\ pc' = "s_post"
                    /\ UNCHANGED <<db, sink, escaped, failure>>
               ELSE /\ GiveUp(r.exc, lost)
                    /\ UNCHANGED <<analysis, prompt>>
       IN  Layers(AnalysisLayer(outcome))
    /\ UNCHANGED <<conv, message, history, raw_response, returned, open,
                   full_response, buffer, upstream, fn>>

\* the streaming call comes back: no answer, a non-success status (an error
\* event, and the call waits in the send), or a reply to read; lost is
\* what the first send does if the client is gone, again what the send of
\* the handler raises after a send that has raised
StreamPost(outcome, lost, again) ==
    /\ pc = "s_post"
    /\ calls' = Append(calls, Call("generation", outcome))
    /\ IF outcome.kind = "transport"
       THEN GiveUp(PostCompletion(outcome).exc, lost) /\ UNCHANGED <<full_response, buffer>>
       ELSE IF outcome.kind = "status"
       THEN LET sent == SendJson(open, sink, ErrorEvent(StatusError), lost)
            IN  /\ IF sent.ok
                   THEN /\ sink' = sent.val
                        /\ failure' = "status"
                        /\ pc' = "s_status"
                        /\ UNCHANGED <<db, escaped>>
                   ELSE GiveUp(sent.exc, again)
                /\ UNCHANGED <<full_response, buffer>>
       ELSE /\ buffer' = <<>>
            /\ full_response' = <<>>
            /\ pc' = "s_read"
            /\ UNCHANGED <<db, sink, escaped, failure>>
    /\ UNCHANGED <<conv, message, history, analysis, prompt, raw_response, returned,
                   open, upstream, fn>>

\* the next line of the reply is read and dealt with: the sentinel ends the
\* loop and the full text is saved; a content is added to the buffer and to
\* the full text and sent as a chunk, and the call waits in the send
StreamLine(line, lost, again) ==
    /\ pc = "s_read"
    /\ Len(upstream) < MaxLines
    /\ upstream' = Append(upstream, line)
    /\ LET Forward(content, sent) ==
               /\ full_response' = AddContent(full_response, content)
               /\ IF sent.ok
                  THEN /\ sink' = sent.val
                       /\ buffer' = buffer \o content
                       /\ pc' = "s_chunk"
                       /\ UNCHANGED <<db, escaped, failure>>
                  ELSE /\ buffer' = buffer \o content
                       /\ GiveUp(sent.exc, again)
           Do(step) ==
               CASE step.do = "skip" ->
                        UNCHANGED <<pc, db, sink, escaped, failure, full_response, buffer>>
                 [] step.do = "done" ->
                        /\ db' = SaveResponse(db, full_response, buffer)
                        /\ pc' = "s_complete"
                        /\ UNCHANGED <<sink, escaped, failure, full_response, buffer>>
                 [] step.do = "raise" ->
                        GiveUp(step.exc, lost) /\ UNCHANGED <<full_response, buffer>>
                 [] step.do = "chunk" ->
                        Forward(step.content,
                                SendJson(open, sink, ChunkEvent(step.content), lost))
       IN  Do(LineStep(line))
    /\ UNCHANGED <<conv, message, history, analysis, prompt, raw_response, returned,
                   calls, open, fn>>

\* the send of the chunk is over: the buffer is looked at and emptied at the
\* end of a sentence, and the next line is asked for
StreamChunkSent ==
    /\ pc = "s_chunk"
    /\ buffer' = ResetBuffer(buffer)
    /\ pc' = "s_read"
    /\ UNCHANGED <<conv, db, requestVars, sink, open, full_response, upstream,
                   failure, fn>>

\* the reply ends without the sentinel; the full text is saved
StreamEnd ==
    /\ pc = "s_read"
    /\ db' = SaveResponse(db, full_response, buffer)
    /\ pc' = "s_complete"
    /\ UNCHANGED <<conv, requestVars, streamVars, fn>>

\* the complete event is sent with the id of the message just saved, and
\* the call waits in the send
StreamComplete(lost, again) ==
    /\ pc = "s_complete"
    /\ LET sent == SendJson(open, sink, CompleteEvent(db[Len(db)].id), lost)
       IN  IF sent.ok
           THEN /\ sink' = sent.val
                /\ pc' = "s_finish"
                /\ UNCHANGED <<db, escaped, failure>>
           ELSE GiveUp(sent.exc, again)
    /\ UNCHANGED <<conv, message, history, analysis, prompt, raw_response, returned,
                   calls, open, full_response, buffer, upstream, fn>>

\* the send of the error event of the status is over: the call returns
\* out of the block of the streaming call
StatusReturn ==
    /\ pc = "s_status"
    /\ pc' = "done"
    /\ UNCHANGED <<conv, db, requestVars, streamVars, fn>>

\* the send of the complete event is over: the block of the streaming call
\* is left and the call ends
StreamReturn ==
    /\ pc = "s_finish"
    /\ pc' = "done"
    /\ UNCHANGED <<conv, db, requestVars, streamVars, fn>>

\* the send of the handler is over: the apology is saved and the call ends
SaveApology ==
    /\ pc = "s_error"
    /\ db' = AddMessage(db, JStr(ApologyText), FALSE, "AI")
    /\ pc' = "done"
    /\ UNCHANGED <<conv, requestVars, streamVars, fn>>

\* the client goes away: before it has sent a message, while the endpoint
\* turns it down, while stream_response is under way (between two steps or
\* while the call waits in a send that has gone out), or after the call,
\* while the endpoint waits for the next message
Disconnect ==
    /\ pc \in {"idle", "closing", "s_analyze", "s_post", "s_read", "s_chunk",
               "s_complete", "s_status", "s_finish", "s_error", "done"}
    /\ open
    /\ open' = FALSE
    /\ UNCHANGED <<pc, conv, db, requestVars, sink, full_response, buffer, upstream,
                   failure, fn>>

\* the client and the response of the streaming call are held inside the
\* "async with" block, from the reply of the call up to the exit of the
\* block: while the reply is read and while the call waits in the send of
\* the complete event or of the error event of the status
UpstreamHeld == pc \in {"s_read", "s_chunk", "s_complete", "s_status", "s_finish"}

InitStream == InitCommon /\ InitStore /\ fn = NoCall

NextStream ==
    \/ \E lost \in SendOutcomes, again \in SendFailures : RejectStream(lost, again)
    \/ \E lost \in SendOutcomes, again \in SendFailures : CloseStream(lost, again)
    \/ \E content \in UserTexts : StreamMessage(content)
    \/ \E outcome \in StreamAnalysisOutcomes, lost \in SendOutcomes :
            StreamAnalyze(outcome, lost)
    \/ \E outcome \in StreamOutcomes, lost \in SendOutcomes, again \in SendFailures :
            StreamPost(outcome, lost, again)
    \/ \E line \in StreamLines, lost \in SendOutcomes, again \in SendFailures :
            StreamLine(line, lost, again)
    \/ StreamChunkSent
    \/ StreamEnd
    \/ \E lost \in SendOutcomes, again \in SendFailures : StreamComplete(lost, again)
    \/ StatusReturn
    \/ StreamReturn
    \/ SaveApology
    \/ Disconnect

SpecStream == InitStream /\ [][NextStream]_vars

(***************************************************************************)
(* Streaming mode: what the sink gets and what is saved                    *)
(***************************************************************************)

\* the content a delta line carries
ContentOf(line) == CHOOSE c \in DeltaContents : DeltaLine(c) = line

\* the lines read before the sentinel
BeforeDone(lines) ==
    IF lines # <<>> /\ lines[Len(lines)] = DoneLine
    THEN SubSeq(lines, 1, Len(lines) - 1) ELSE lines

RECURSIVE ChunksOf(_)
\* one chunk event for each delta line with a content, in the order of the lines
ChunksOf(lines) ==
    IF lines = <<>> THEN <<>>
    ELSE IF Head(lines) \in DeltaLines /\ ContentOf(Head(lines)) # <<>>
    THEN <<ChunkEvent(ContentOf(Head(lines)))>> \o ChunksOf(Tail(lines))
    ELSE ChunksOf(Tail(lines))

RECURSIVE ChunkText(_)
\* the contents of the chunk events among these events, joined in order
ChunkText(events) ==
    IF events = <<>> THEN <<>>
    ELSE IF Head(events).type = "chunk"
    THEN Head(events).content \o ChunkText(Tail(events))
    ELSE ChunkText(Tail(events))

\* the events of a type among the events sent
OfType(events, type) == SelectSeq(events, LAMBDA e : e.type = type)

\* all lines read so far are deltas, but for a sentinel at the end
OnlyDeltas == \A i \in 1..Len(BeforeDone(upstream)) : BeforeDone(upstream)[i] \in DeltaLines

\* all lines read so far are deltas or fragments that cannot be parsed as a
\* delta, but for a sentinel at the end
DeltasAndMalformed ==
    \A i \in 1..Len(BeforeDone(upstream)) :
        BeforeDone(upstream)[i] \in DeltaLines \cup MalformedLines

\* C5: whenever stream_response has failed (the analysis or the prompt, a
\* non-success status of the streaming call, a transport failure, a fragment
\* that cannot be processed) and the client is still there, an error event
\* has been sent and the apology is saved as a message of the assistant
C5_FailureGivesErrorAndApology ==
    (pc = "done" /\ failure # "none" /\ open) =>
        /\ OfType(sink, "error") # <<>>
        /\ \E i \in 1..Len(SavedSince) :
              IsAssistant(SavedSince[i]) /\ SavedSince[i].content = JStr(ApologyText)

\* the streaming call was answered with a non-success status: the error
\* event has gone out to a client that is there, and nothing is saved after
\* the message of the user
C5_Witness ==
    /\ pc = "done"
    /\ open
    /\ failure = "status"
    /\ sink = <<ErrorEvent(StatusError)>>
    /\ SavedSince = <<>>

\* C6: while the client is there and the reply is content deltas, the sink
\* holds one chunk event for each delta with a content, in the order of the
\* reply; once the sentinel has come and the call has ended the sink holds
\* these chunks, then one complete event, and nothing else
C6_DeliveryOrder ==
    (open /\ upstream # <<>> /\ OnlyDeltas) =>
        /\ pc \in {"s_read", "s_chunk"} => sink = ChunksOf(upstream)
        /\ (pc \in {"s_finish", "done"} /\ upstream[Len(upstream)] = DoneLine) =>
              sink = ChunksOf(upstream) \o <<CompleteEvent(db[Len(db)].id)>>

\* the deltas "Hi" and " there" and the sentinel have been read and the sink
\* holds three events
C6_Witness ==
    /\ pc = "done"
    /\ open
    /\ upstream = <<DeltaLine(<<"Hi">>), DeltaLine(<<" ", "there">>), DoneLine>>
    /\ sink = <<ChunkEvent(<<"Hi">>), ChunkEvent(<<" ", "there">>),
                CompleteEvent(db[Len(db)].id)>>

\* C7: when the reply has ended, one message of the assistant is saved and
\* its content is the contents of the deltas forwarded as chunks, joined in
\* order, which are the chunks the sink holds when the client is there; it
\* is saved before the complete event goes out; the one complete event
\* carries its identifier; no decomposition call is made
C7_Completion ==
    /\ \A i \in 1..Len(calls) : calls[i].stage # "decomposition"
    /\ pc = "s_complete" =>
          /\ Len(SavedSince) = 1
          /\ IsAssistant(SavedSince[1])
          /\ SavedSince[1].content = JStr(ChunkText(ChunksOf(upstream)))
          /\ open => SavedSince[1].content = JStr(ChunkText(sink))
          /\ OfType(sink, "complete") = <<>>
    /\ OfType(sink, "complete") # <<>> =>
          /\ pc \in {"s_finish", "done"}
          /\ Len(SavedSince) = 1
          /\ IsAssistant(SavedSince[1])
          /\ SavedSince[1].content = JStr(ChunkText(sink))
          /\ OfType(sink, "complete") = <<CompleteEvent(SavedSince[1].id)>>
          /\ sink[Len(sink)] = CompleteEvent(SavedSince[1].id)

\* a reply of a word and a full stop has ended without a sentinel, its text
\* is saved and the complete event has gone out
C7_Witness ==
    /\ pc = "done"
    /\ upstream = <<DeltaLine(<<"Hi">>), DeltaLine(<<".">>)>>
    /\ SavedSince # <<>>
    /\ SavedSince[1].content = JStr(<<"Hi", ".">>)
    /\ sink # <<>>
    /\ sink[Len(sink)] = CompleteEvent(SavedSince[1].id)

\* C8: while the client is there and the reply is deltas and fragments that
\* cannot be parsed as a delta, the call goes on without a failure, the sink
\* holds the chunks of the deltas and nothing else, and once the call has
\* ended the complete event is the last event
C8_MalformedSkipped ==
    (open /\ upstream # <<>> /\ DeltasAndMalformed) =>
        /\ failure = "none"
        /\ OfType(sink, "error") = <<>>
        /\ OfType(sink, "chunk") = ChunksOf(upstream)
        /\ pc = "done" => sink = ChunksOf(upstream) \o <<CompleteEvent(db[Len(db)].id)>>

\* a fragment that is an object without choices came after a delta: the call
\* has ended with an error event and the apology, and no complete event
C8_Witness ==
    /\ pc = "done"
    /\ open
    /\ upstream = <<DeltaLine(<<"Hi">>), NoChoicesLine>>
    /\ failure = "KeyError"
    /\ sink = <<ChunkEvent(<<"Hi">>), ErrorEvent(StreamError)>>
    /\ SavedSince # <<>>
    /\ SavedSince[1].content = JStr(ApologyText)

\* C19: once a send to the websocket has failed, stream_response (or the
\* endpoint that turns the client down) is over and the response of the
\* streaming call is no longer held; from then on no line is read, no call
\* is made and nothing is sent or saved; and no step taken with the
\* connection closed puts an event on the websocket
C19_Cancellation ==
    /\ [](escaped # "none" => (pc \in {"done", "rejected"} /\ ~UpstreamHeld))
    /\ [][/\ ~open => sink' = sink
          /\ escaped # "none" => UNCHANGED <<pc, sink, upstream, calls, db>>]_vars

\* the client went away after the first chunk: the send of the second chunk
\* has failed, then the send of the handler, and the call is over with one
\* chunk delivered and nothing saved
C19_Witness ==
    /\ pc = "done"
    /\ ~open
    /\ escaped = "RuntimeError"
    /\ failure = "RuntimeError"
    /\ upstream = <<DeltaLine(<<"Hi">>), DeltaLine(<<" ", "there">>)>>
    /\ sink = <<ChunkEvent(<<"Hi">>)>>
    /\ SavedSince = <<>>

\* stream_response is under way or over
InStream ==
    pc \in {"s_analyze", "s_post", "s_read", "s_chunk", "s_complete", "s_status",
            "s_finish", "s_error", "done"}

\* C28: a call of stream_response saves at most one message of the
\* assistant, the full text or the apology and never both, whatever fails
\* and whenever; when the send of the complete event fails after the full
\* text was saved, the full text stays the one message saved
C28_AtMostOneAssistantMessage ==
    InStream =>
        /\ Len(SavedSince) <= 1
        /\ \A i \in 1..Len(SavedSince) : IsAssistant(SavedSince[i])
        /\ \A i \in 1..Len(SavedSince) :
              SavedSince[i].content \in {JStr(ApologyText), JStr(full_response)}
        /\ (Len(SavedSince) = 1 /\ OfType(sink, "error") # <<>>)
              => SavedSince[1].content = JStr(ApologyText)
        /\ (Len(SavedSince) = 1 /\ (OfType(sink, "complete") # <<>> \/ escaped # "none"))
              => SavedSince[1].content = JStr(full_response)

\* the client went away after the full text was saved: the send of the
\* complete event has failed, then the send of the handler, and the full
\* text is the one message saved
C28_Witness ==
    /\ pc = "done"
    /\ ~open
    /\ escaped = "RuntimeError"
    /\ upstream = <<DeltaLine(<<"Hi">>), DoneLine>>
    /\ sink = <<ChunkEvent(<<"Hi">>)>>
    /\ Len(SavedSince) = 1
    /\ SavedSince[1].content = JStr(<<"Hi">>)

\* the events that end a call: the complete event and the error event
Terminal(events) == SelectSeq(events, LAMBDA e : e.type \in {"complete", "error"})

\* C29: the sink gets at most one event that ends the call, a complete
\* event or an error event and never both, and it is the last event: no
\* chunk and no other event is sent after it; when the streaming call is
\* answered with a non-success status the error event of the status is the
\* only event the sink gets
C29_OneTerminalEvent ==
    /\ [](/\ Len(Terminal(sink)) <= 1
          /\ Terminal(sink) # <<>> => sink[Len(sink)] = Terminal(sink)[1]
          /\ Terminal(sink) # <<>> =>
                pc \in {"s_status", "s_finish", "s_error", "done", "closing", "rejected"}
          /\ (Len(calls) = 2 /\ calls[2].kind = "status") =>
                sink \in {<<>>, <<ErrorEvent(StatusError)>>}
          /\ (open /\ failure = "status") => sink = <<ErrorEvent(StatusError)>>)
    /\ [][Terminal(sink) # <<>> => sink' = sink]_vars

\* a chunk has gone out, then a fragment without choices was read: the
\* error event is the one event that ends the call and the last event sent
C29_Witness ==
    /\ pc = "done"
    /\ open
    /\ upstream = <<DeltaLine(<<"Hi">>), NoChoicesLine>>
    /\ sink = <<ChunkEvent(<<"Hi">>), ErrorEvent(StreamError)>>
    /\ Terminal(sink) = <<ErrorEvent(StreamError)>>

(***************************************************************************)
(* The service in both modes: a message is sent on either channel          *)
(***************************************************************************)

NextService == Next \/ NextStream

SpecService == Init /\ [][NextService]_vars

\* the prompt the rule gives for a verdict: the concise template for SIMPLE
\* and CONCISE, else the adaptive template with the summary, the emotional
\* state and the directive of the approach
ExpectedPrompt(a) ==
    IF SimpleConciseVerdict(a) THEN ConcisePrompt
    ELSE [template |-> "adaptive",
          summary |-> Subscript(a, "conversationSummary").val,
          state |-> Subscript(a, "emotionalState").val,
          directive |-> IF Subscript(a, "recommendedApproach") = Ok(JStr(<<"CONCISE">>))
                        THEN "brief" ELSE "detailed"]

\* the replies of the analysis model that give all four fields
FullVerdicts ==
    {Reply(ObjText(<<q, a, Member("emotionalState", "x"),
                     Member("conversationSummary", "x")>>)) :
        q \in QueryTypeMembers \ {<<>>}, a \in ApproachMembers \ {<<>>}}

\* Layer 2 is behind: the generation call is the next step or was made
PromptSelected ==
    \/ pc \in {"generate", "decompose", "s_post", "s_read", "s_chunk", "s_complete",
               "s_status", "s_finish"}
    \/ pc = "done" /\ Len(calls) >= 2

\* C17: in request mode and in streaming mode alike the prompt is the one
\* the rule gives for the verdict and depends on nothing else: the concise
\* template for SIMPLE and CONCISE, else the adaptive template with the
\* summary, the emotional state and the brief or detailed directive; for
\* every verdict with its four fields a prompt is selected
C17_PromptSelection ==
    LET Right(r) == r.ok /\ r.val[2] = ExpectedPrompt(r.val[1])
    IN  /\ PromptSelected => prompt = ExpectedPrompt(analysis)
        /\ pc \in {"analyze", "s_analyze"} =>
              \A o \in FullVerdicts : Right(AnalysisLayer(o))

\* streaming mode with a THERAPEUTIC and CONCISE verdict: the adaptive
\* template with the brief directive is what the generation call is given
C17_Witness ==
    /\ pc = "s_post"
    /\ Subscript(analysis, "queryType") = Ok(JStr(<<"THERAPEUTIC">>))
    /\ Subscript(analysis, "recommendedApproach") = Ok(JStr(<<"CONCISE">>))
    /\ prompt = [template |-> "adaptive", summary |-> JStr(<<"x">>),
                 state |-> JStr(<<"x">>), directive |-> "brief"]

\* stream_response has ended: it has failed or it has read the reply of a
\* streaming call; process_message does neither
Streamed ==
    /\ pc = "done"
    /\ failure # "none" \/ (Len(calls) = 2 /\ calls[2].kind = "stream")

\* the message of the user is the row saved last before the calls
UserMessageSaved ==
    /\ history # <<>>
    /\ history = SubSeq(db, 1, Len(history))
    /\ history[Len(history)].is_user
    /\ history[Len(history)].content = JStr(message)

\* C18: in both modes the message of the user is saved before the first
\* analysis or generation call; no message of the assistant is saved while
\* the batch is not yet produced or the reply is still being read; request
\* mode then saves one message for each element of the batch, in the order
\* of the batch, and streaming mode saves one message at most
C18_PersistenceOrdering ==
    /\ (calls # <<>> \/ pc \notin {"idle", "closing", "rejected"}) => UserMessageSaved
    /\ pc \in {"idle", "closing", "rejected"} => calls = <<>>
    /\ pc \in {"analyze", "generate", "decompose",
               "s_analyze", "s_post", "s_read", "s_chunk"} =>
          SavedSince = <<>>
    /\ pc = "s_status" => SavedSince = <<>>
    /\ pc \in {"s_complete", "s_finish"} =>
          (Len(SavedSince) = 1 /\ IsAssistant(SavedSince[1]))
    /\ Streamed => Len(SavedSince) <= 1
    /\ (pc = "done" /\ ~Streamed) =>
          /\ SavedSince = returned
          /\ \A i \in 1..Len(returned) :
                IsAssistant(returned[i]) /\ returned[i].id = Len(history) + i

\* request mode has ended with a batch of two messages: after the message
\* of the user the store holds the two of them in the order of the batch
C18_Witness ==
    /\ pc = "done"
    /\ ~Streamed
    /\ Len(calls) = 3
    /\ UserMessageSaved
    /\ Len(SavedSince) = 2
    /\ SavedSince[1].content = JStr(<<"x">>)
    /\ SavedSince[2].content = JStr(<<"hi">>)
    /\ SavedSince = returned

(***************************************************************************)
(* The message lists taken alone                                           *)
(***************************************************************************)

\* analyze_conversation, or process_message, is entered with the message;
\* fn.store is the rows of the conversation
InitRequests ==
    /\ InitCommon
    /\ conv = TRUE
    /\ db = <<>>
    /\ fn \in {[done |-> FALSE, at |-> "start", target |-> t, store |-> d,
                message |-> m, history |-> <<>>, sent |-> <<>>] :
                t \in {"analysis", "generation"}, d \in RequestStores,
                m \in RequestTexts}

\* analyze_conversation is called with the message and the stored messages
\* as the history, and builds its message list
BuildAnalysisRequest ==
    /\ fn.at = "start"
    /\ fn.target = "analysis"
    /\ fn' = [fn EXCEPT !.at = "done", !.done = TRUE,
                        !.history = fn.store,
                        !.sent = AnalysisRequest(fn.message, fn.store)]
    /\ UNCHANGED <<pc, conv, db, requestVars, streamVars>>

\* process_message saves the message, reads the history with get_messages
\* and awaits analyze_conversation, which builds its message list from that
\* history and waits for its completion call
SaveAndAnalyze ==
    /\ fn.at = "start"
    /\ fn.target = "generation"
    /\ LET Saved(d) ==
               fn' = [fn EXCEPT !.at = "analyzing",
                                !.store = d,
                                !.history = GetMessages(d),
                                !.sent = AnalysisRequest(fn.message, GetMessages(d))]
       IN  Saved(AddMessage(fn.store, JStr(fn.message), TRUE, "device"))
    /\ UNCHANGED <<pc, conv, db, requestVars, streamVars>>

\* the analysis has returned and the prompt is chosen: _get_raw_response
\* builds its message list from the history read before the analysis
BuildGenerationRequest ==
    /\ fn.at = "analyzing"
    /\ fn.target = "generation"
    /\ fn' = [fn EXCEPT !.at = "done", !.done = TRUE,
                        !.sent = GenerationRequest(fn.message, fn.history)]
    /\ UNCHANGED <<pc, conv, db, requestVars, streamVars>>

NextRequests == BuildAnalysisRequest \/ SaveAndAnalyze \/ BuildGenerationRequest

SpecRequests == InitRequests /\ [][NextRequests]_vars

\* the entry at place i of the list is the stored message at place j
EntryOf(sent, i, conversation_history, j) ==
    /\ sent[i].content = conversation_history[j].content
    /\ sent[i].role = (IF conversation_history[j].is_user THEN "user" ELSE "assistant")

\* the message is not the newest message of the history: the history is
\* empty, or its last message has another content or is not of the user
NotNewest(current_message, conversation_history) ==
    \/ conversation_history = <<>>
    \/ conversation_history[Len(conversation_history)].content # JStr(current_message)
    \/ ~conversation_history[Len(conversation_history)].is_user

\* the analyzer has built its message list: called alone it has ended, and
\* called by process_message it waits for its completion call
AnalysisListBuilt ==
    \/ fn.done /\ fn.target = "analysis"
    \/ fn.at = "analyzing"

\* C23: the list sent for analysis is the system instruction, then the last
\* min(5, n) messages of the history in their order, each as user or
\* assistant after its author, then the message as a last user entry if and
\* only if it is not the newest message of the history
C23_AnalysisRequest ==
    AnalysisListBuilt =>
        LET n == Len(fn.history)
            k == Min(5, n)
            added == IF NotNewest(fn.message, fn.history) THEN 1 ELSE 0
        IN  /\ Len(fn.sent) = 1 + k + added
            /\ fn.sent[1].role = "system"
            /\ \A i \in 1..k : EntryOf(fn.sent, 1 + i, fn.history, n - k + i)
            /\ added = 1 => fn.sent[Len(fn.sent)] = [role |-> "user",
                                                    content |-> JStr(fn.message)]

\* a history of six messages whose last is the message itself, sent by the
\* user: five of them are in the list and the message is not added
C23_Witness ==
    /\ fn.done
    /\ fn.target = "analysis"
    /\ Len(fn.history) = 6
    /\ ~NotNewest(fn.message, fn.history)
    /\ ~fn.history[5].is_user
    /\ Len(fn.sent) = 6
    /\ fn.sent[6] = [role |-> "user", content |-> JStr(fn.message)]
    /\ fn.sent[2] = HistoryEntry(fn.history[2])

\* the rows the conversation held before process_message saved the message
HeldBefore == SubSeq(fn.store, 1, Len(fn.store) - 1)

\* C27: the list sent for generation is the system prompt, then the most
\* recent messages the conversation held before the new message, ten of
\* them at most and in their order, then the new message as the last entry,
\* however many messages the conversation held
C27_GenerationRequest ==
    (fn.done /\ fn.target = "generation") =>
        \E k \in 0..Min(10, Len(HeldBefore)) :
            fn.sent = <<SystemEntry("system_prompt")>>
                      \o LastEntries(HeldBefore, k)
                      \o <<UserEntry(fn.message)>>

\* a conversation of 100 messages whose last is of the user: the new
\* message is saved as the 101st row, the history read is the first 100, and
\* the list sent for generation ends with the 100th message and does not
\* hold the new one
C27_Witness ==
    /\ fn.done
    /\ fn.target = "generation"
    /\ Len(fn.store) = 101
    /\ fn.store[100].is_user
    /\ fn.message = <<"hi">>
    /\ fn.store[101].content = JStr(fn.message)
    /\ fn.history = HeldBefore
    /\ Len(fn.sent) = 11
    /\ fn.sent[11] = HistoryEntry(fn.store[100])
    /\ \A i \in 1..Len(fn.sent) : fn.sent[i].content # JStr(fn.message)

====
